---- MODULE Spec2Model ----
(***************************************************************************)
(* Model of auth/testapp/src/common_main.cc: the WaitForFuture polling     *)
(* protocol, WaitForSignInFuture and WaitForSignOut built on it, the       *)
(* AuthStateChangeCounter / IdTokenChangeCounter listener counters, the    *)
(* part of common_main that sequences them, the phone-number verification  *)
(* flow with its PhoneListener, the start and end of common_main, and the  *)
(* UserLogin helper class.                                                 *)
(*                                                                         *)
(* WaitForFuture is modelled statement by statement (pc names the next     *)
(* statement of the call in progress) so that the external subsystem can   *)
(* complete the future, and deliver listener notifications, between any    *)
(* two of its reads.                                                       *)
(***************************************************************************)
EXTENDS Integers, Sequences, FiniteSets, TLC

\* ------------------------------------------------------------------ bounds
\* Largest AuthError value drawn for a settled or an expected error.
MaxError == 2
\* ProcessEvents calls of one wait are counted exactly up to this number
\* (the counters below saturate there; the loop itself is never cut short).
MaxPumps == 3
\* Largest number of notifications a counter receives in the model.
MaxNotify == 3
\* Largest number of calls of one PhoneListener callback.
MaxCallbacks == 1

\* --------------------------------------------------------------- constants
\* firebase::auth::kAuthErrorNone
kAuthErrorNone == 0
\* Lines 59-61.
kWaitIntervalMs == 300
kPhoneAuthCodeSendWaitMs == 600000
kPhoneAuthCompletionWaitMs == 8000

\* A null `const char*`.
NULL == "NULL"

ErrorCodes == 0..MaxError
Messages == {NULL, "", "msg"}
FutureStatus == {"Invalid", "Pending", "Complete"}

\* What a null pointer handed to a %s conversion is printed as: undefined
\* by the language, so any of the renderings a build produces.
NullRenderings == {"(null)", ""}

VARIABLES
  future,            \* the FutureBase handed to WaitForFuture
  expected_error,    \* argument of the call in progress
  log_error,         \* argument of the call in progress
  pc,                \* next statement of WaitForFuture, "idle" outside a call
  ret,               \* value returned by the call ("none" until it returns)
  reports,           \* LogMessage lines emitted by the call in progress
  pumpCalls,         \* ProcessEvents calls made by the call in progress
  lastPump,          \* what the latest ProcessEvents call returned
  pendingObs,        \* loop-condition reads that saw kFutureStatusPending
  entryStatus,       \* future.status() as read at line 77
  observedStatus,    \* the status with which the loop condition failed
  returns,           \* return statements executed by the call in progress
  num_state_changes_,  \* AuthStateChangeCounter::num_state_changes_
  num_token_changes_,  \* IdTokenChangeCounter::num_token_changes_
  window,            \* notifications delivered to each counter since its reset
  last_call,         \* the latest counter operation and its arguments
  counter_log,       \* the LogMessage line that operation emitted
  sign_in_result,    \* sign_in_future.result(): <<>> for nullptr, else <<User*>>
  current_user,      \* auth->current_user()
  si_pc,             \* next statement of WaitForSignInFuture, "idle" outside
  sign_in_user,      \* local of WaitForSignInFuture ("unread" until assigned)
  auth_user,         \* local of WaitForSignInFuture ("unread" until assigned)
  si_ret,            \* value returned by WaitForSignInFuture
  si_reports,        \* LogMessage lines of WaitForSignInFuture itself
  so_pc,             \* next statement of WaitForSignOut, "idle" outside
  so_ret,            \* value returned by WaitForSignOut
  so_ticks100,       \* ProcessEvents(100) calls of the call in progress
  so_ticks1000,      \* ProcessEvents(1000) calls of the call in progress
  so_last100,        \* what the latest ProcessEvents(100) call returned
  so_last1000,       \* what the ProcessEvents(1000) call returned
  so_userObs,        \* loop-condition reads that saw a current user
  so_sawNull,        \* the loop condition has seen no current user
  ct_pc,             \* next statement of a CompleteTest run step by step
  ct_args,           \* its <<min_state_changes, max_state_changes>>
  ct_reads,          \* the values it has read from num_state_changes_
  ct_success,        \* its local `success` ("none" until computed)
  nt_pc,             \* next statement of OnAuthStateChanged on the SDK thread
  nt_tmp,            \* the value that thread loaded for its increment
  delivered,         \* OnAuthStateChanged calls made by the SDK thread
  accounted,         \* sum of the counts CompleteTest calls gave a verdict on
  mpc,               \* next statement of common_main
  user_,             \* UserLogin::user_ of user_login ("unset" until assigned)
  issued,            \* call sites of the SDK operations and waits issued
  exit_seen,         \* a wait of the run has returned true
  failed,            \* a wait of the run has logged an ERROR line
  had_user,          \* the test of line 468 ("none" until evaluated)
  main_reports,      \* LogMessage lines of common_main itself
  ph_pc,             \* next statement of the phone verification flow
  wait_ms,           \* local of common_main (line 502)
  num_calls_on_verification_complete_,         \* PhoneListener field
  num_calls_on_verification_failed_,           \* PhoneListener field
  num_calls_on_code_sent_,                     \* PhoneListener field
  num_calls_on_code_auto_retrieval_time_out_,  \* PhoneListener field
  verification_id_,  \* PhoneListener field
  listener_lines,    \* the LogMessage lines the listener has emitted
  ph_reports,        \* LogMessage lines of the flow other than "."
  send_pumps,        \* ProcessEvents calls of the code-send wait
  completion_pumps,  \* ProcessEvents calls of the completion wait
  ph_last_pump,      \* what the latest of those calls returned
  send_exit_received,  \* a callback had been counted when the code-send
                     \* wait was left ("none" until then)
  run_pc,            \* next statement of common_main at its start and end
  init_future,       \* initializer.InitializeLastResult()
  run_ret,           \* value returned by common_main (-1 until it returns)
  tests_run,         \* the test sequence has been run
  init_pumps,        \* ProcessEvents(100) calls of the initialization wait
  final_pumps,       \* ProcessEvents(1000) calls of the final loop
  run_last_pump,     \* the latest ProcessEvents call and what it returned
  run_reports,       \* LogMessage lines of the start and end of common_main
  ul_pc,             \* where the UserLogin object is in its life
  log_errors_,       \* UserLogin::log_errors_ ("true" or "false")
  ul_ctor,           \* the constructor the object was built with
  delete_requests,   \* user_->Delete() requests issued
  login_calls,       \* Login() calls made
  del_held,          \* a user was held on entry ("none" before any Delete)
  del_from,          \* "call" for a Delete() call, "dtor" for the destructor
  deleted_before,    \* a Delete() call on the object has returned
  reg_user,          \* the user Register() found ("none" before Register)
  first_status       \* status of the first delete future ("none" without)

waitVars == <<future, expected_error, log_error, pc, ret, reports, pumpCalls,
              lastPump, pendingObs, entryStatus, observedStatus, returns>>
counterVars == <<num_state_changes_, num_token_changes_, window, last_call,
                 counter_log>>
signInVars == <<sign_in_result, current_user, si_pc, sign_in_user, auth_user,
                si_ret, si_reports>>
\* Everything outside WaitForFuture and the two counters.
signOutVars == <<so_pc, so_ret, so_ticks100, so_ticks1000, so_last100,
                 so_last1000, so_userObs, so_sawNull>>
threadVars == <<ct_pc, ct_args, ct_reads, ct_success, nt_pc, nt_tmp,
                delivered, accounted>>
mainVars == <<mpc, user_, issued, exit_seen, failed, had_user, main_reports>>
phoneVars == <<ph_pc, wait_ms, num_calls_on_verification_complete_,
               num_calls_on_verification_failed_, num_calls_on_code_sent_,
               num_calls_on_code_auto_retrieval_time_out_, verification_id_,
               listener_lines, ph_reports, send_pumps, completion_pumps,
               ph_last_pump, send_exit_received>>
\* The phone flow, the start and end of common_main, and UserLogin.
runVars == <<run_pc, init_future, run_ret, tests_run, init_pumps, final_pumps,
             run_last_pump, run_reports>>
loginVars == <<ul_pc, log_errors_, ul_ctor, delete_requests, login_calls,
               del_held, del_from, deleted_before, reg_user, first_status>>
laterVars == <<phoneVars, runVars, loginVars>>
extVars == <<signInVars, signOutVars, threadVars, mainVars, laterVars>>
vars == <<waitVars, counterVars, extVars>>

NoFuture == [status |-> "Invalid", error |-> 0, error_message |-> NULL]
NoCall == [op |-> "none", counter |-> "none", min |-> 0, max |-> 0,
           arity |-> 0, before |-> 0, notified |-> 0]
NoLine == [text |-> "none", ERROR |-> FALSE, count |-> 0, plural |-> FALSE]
Counters == {"auth", "token"}

\* A C++ bool as `ret` and `lastPump` record it.
Str(b) == IF b THEN "true" ELSE "false"

Sat(n) == IF n < MaxPumps THEN n + 1 ELSE MaxPumps

\* One LogMessage line of WaitForFuture: its format string, whether it is
\* classified as an error ("ERROR: ..."), the codes printed by %d and the
\* message printed by %s ("-" when the format has none).
Line(text, err, codes, msg) ==
  [text |-> text, ERROR |-> err, codes |-> codes, msg |-> msg]

\* The text a %s conversion produces for `m`.
Render(m) == IF m = NULL THEN NullRenderings ELSE {m}

Init ==
  /\ future = NoFuture
  /\ expected_error = kAuthErrorNone
  /\ log_error = TRUE
  /\ pc = "idle"
  /\ ret = "none"
  /\ reports = <<>>
  /\ pumpCalls = 0
  /\ lastPump = "none"
  /\ pendingObs = 0
  /\ entryStatus = "none"
  /\ observedStatus = "none"
  /\ returns = 0
  /\ num_state_changes_ = 0
  /\ num_token_changes_ = 0
  /\ window = [c \in Counters |-> 0]
  /\ last_call = NoCall
  /\ counter_log = NoLine
  /\ sign_in_result = <<>>
  /\ current_user = NULL
  /\ si_pc = "idle"
  /\ sign_in_user = "unread"
  /\ auth_user = "unread"
  /\ si_ret = "none"
  /\ si_reports = <<>>
  /\ so_pc = "idle"
  /\ so_ret = "none"
  /\ so_ticks100 = 0
  /\ so_ticks1000 = 0
  /\ so_last100 = "none"
  /\ so_last1000 = "none"
  /\ so_userObs = 0
  /\ so_sawNull = FALSE
  /\ ct_pc = "idle"
  /\ ct_args = <<0, 0>>
  /\ ct_reads = <<>>
  /\ ct_success = "none"
  /\ nt_pc = "idle"
  /\ nt_tmp = 0
  /\ delivered = 0
  /\ accounted = 0
  /\ mpc = "L459"
  /\ user_ = "unset"
  /\ issued = <<>>
  /\ exit_seen = FALSE
  /\ failed = FALSE
  /\ had_user = "none"
  /\ main_reports = <<>>
  /\ ph_pc = "idle"
  /\ wait_ms = 0
  /\ num_calls_on_verification_complete_ = 0
  /\ num_calls_on_verification_failed_ = 0
  /\ num_calls_on_code_sent_ = 0
  /\ num_calls_on_code_auto_retrieval_time_out_ = 0
  /\ verification_id_ = ""
  /\ listener_lines = {}
  /\ ph_reports = <<>>
  /\ send_pumps = 0
  /\ completion_pumps = 0
  /\ ph_last_pump = "none"
  /\ send_exit_received = "none"
  /\ run_pc = "start"
  /\ init_future = NoFuture
  /\ run_ret = 0 - 1
  /\ tests_run = FALSE
  /\ init_pumps = 0
  /\ final_pumps = 0
  /\ run_last_pump = [tick |-> 0, result |-> "none"]
  /\ run_reports = <<>>
  /\ ul_pc = "none"
  /\ log_errors_ = "unset"
  /\ ul_ctor = "none"
  /\ delete_requests = 0
  /\ login_calls = 0
  /\ del_held = "none"
  /\ del_from = "none"
  /\ deleted_before = FALSE
  /\ reg_user = "none"
  /\ first_status = "none"

\* ------------------------------------------------------------ WaitForFuture

\* The orchestrator calls WaitForFuture(future, fn, expected_error, log_error)
\* on a future the SDK handed out: never started (Invalid), still running
\* (Pending) or already settled (Complete).
Call(st, err, msg, exp, log) ==
  /\ pc = "idle"
  /\ future' = IF st = "Complete"
               THEN [status |-> st, error |-> err, error_message |-> msg]
               ELSE [status |-> st, error |-> 0, error_message |-> NULL]
  /\ expected_error' = exp
  /\ log_error' = log
  /\ pc' = "entry"
  /\ ret' = "none"
  /\ reports' = <<>>
  /\ pumpCalls' = 0
  /\ lastPump' = "none"
  /\ pendingObs' = 0
  /\ entryStatus' = "none"
  /\ observedStatus' = "none"
  /\ returns' = 0
  /\ last_call' = NoCall
  /\ counter_log' = NoLine
  /\ UNCHANGED <<num_state_changes_, num_token_changes_, window>>
  /\ UNCHANGED extVars

\* Entry without the early return of lines 77-80: an invalid future is polled
\* and logged like any other.
Entry_NoInvalidCheck ==
  /\ pc = "entry"
  /\ entryStatus' = future.status
  /\ reports' = Append(reports, Line("calling", FALSE, <<>>, "-"))
  /\ pc' = "loop"
  /\ UNCHANGED <<ret, returns>>
  /\ UNCHANGED <<future, expected_error, log_error, pumpCalls, lastPump,
                 pendingObs, observedStatus>>
  /\ UNCHANGED counterVars
  /\ UNCHANGED extVars

\* Lines 77-83: the invalid-future check, then the "Calling" line.
Entry ==
  /\ pc = "entry"
  /\ entryStatus' = future.status
  /\ IF future.status = "Invalid"
     THEN /\ reports' = Append(reports, Line("invalid", TRUE, <<>>, "-"))
          /\ ret' = "false"
          /\ returns' = returns + 1
          /\ pc' = "done"
     ELSE /\ reports' = Append(reports, Line("calling", FALSE, <<>>, "-"))
          /\ pc' = "loop"
          /\ UNCHANGED <<ret, returns>>
  /\ UNCHANGED <<future, expected_error, log_error, pumpCalls, lastPump,
                 pendingObs, observedStatus>>
  /\ UNCHANGED counterVars
  /\ UNCHANGED extVars

\* The loop written as do { ... } while (pending): the first pass pumps
\* whatever the status is.
LoopCheck_DoWhile ==
  /\ pc = "loop"
  /\ IF future.status = "Pending" \/ pumpCalls = 0
     THEN /\ pc' = "pump"
          /\ pendingObs' = IF future.status = "Pending"
                           THEN Sat(pendingObs) ELSE pendingObs
          /\ UNCHANGED observedStatus
     ELSE /\ pc' = "log"
          /\ observedStatus' = future.status
          /\ UNCHANGED pendingObs
  /\ UNCHANGED <<future, expected_error, log_error, ret, reports, pumpCalls,
                 lastPump, entryStatus, returns>>
  /\ UNCHANGED counterVars
  /\ UNCHANGED extVars

\* Line 84: the loop condition.
LoopCheck ==
  /\ pc = "loop"
  /\ IF future.status = "Pending"
     THEN /\ pc' = "pump"
          /\ pendingObs' = Sat(pendingObs)
          /\ UNCHANGED observedStatus
     ELSE /\ pc' = "log"
          /\ observedStatus' = future.status
          /\ UNCHANGED pendingObs
  /\ UNCHANGED <<future, expected_error, log_error, ret, reports, pumpCalls,
                 lastPump, entryStatus, returns>>
  /\ UNCHANGED counterVars
  /\ UNCHANGED extVars

\* Line 85 with the result of ProcessEvents dropped: the loop goes on.
Pump_IgnoreShutdown(shutdown) ==
  /\ pc = "pump"
  /\ pumpCalls' = Sat(pumpCalls)
  /\ lastPump' = Str(shutdown)
  /\ pc' = "loop"
  /\ UNCHANGED <<ret, returns>>
  /\ UNCHANGED <<future, expected_error, log_error, reports, pendingObs,
                 entryStatus, observedStatus>>
  /\ UNCHANGED counterVars
  /\ UNCHANGED extVars

\* Line 85 with a tick budget: after the second tick the wait gives up and
\* goes on to the result.
Pump_TickBudget(shutdown) ==
  /\ pc = "pump"
  /\ pumpCalls' = Sat(pumpCalls)
  /\ lastPump' = Str(shutdown)
  /\ IF shutdown
     THEN /\ ret' = "true"
          /\ returns' = returns + 1
          /\ pc' = "done"
          /\ UNCHANGED observedStatus
     ELSE /\ pc' = IF pumpCalls >= 1 THEN "log" ELSE "loop"
          /\ observedStatus' = IF pumpCalls >= 1 THEN future.status
                                                 ELSE observedStatus
          /\ UNCHANGED <<ret, returns>>
  /\ UNCHANGED <<future, expected_error, log_error, reports, pendingObs,
                 entryStatus>>
  /\ UNCHANGED counterVars
  /\ UNCHANGED extVars

\* Line 85: one ProcessEvents(100) call returning `shutdown`.
Pump(shutdown) ==
  /\ pc = "pump"
  /\ pumpCalls' = Sat(pumpCalls)
  /\ lastPump' = Str(shutdown)
  /\ IF shutdown
     THEN /\ ret' = "true"
          /\ returns' = returns + 1
          /\ pc' = "done"
     ELSE /\ pc' = "loop"
          /\ UNCHANGED <<ret, returns>>
  /\ UNCHANGED <<future, expected_error, log_error, reports, pendingObs,
                 entryStatus, observedStatus>>
  /\ UNCHANGED counterVars
  /\ UNCHANGED extVars

\* Lines 89-103 comparing the settled error with kAuthErrorNone instead of
\* with the expected error.
ResultLine_ExpectNone(error, expected, error_message, shown) ==
  IF error = kAuthErrorNone
  THEN IF error_message # NULL
       THEN Line("completed as expected", FALSE, <<>>, "-")
       ELSE Line("completed as expected, error", FALSE, <<error>>, shown)
  ELSE Line("completed with error", TRUE, <<error>>, shown)

\* Lines 89-103 printing the expected error where the settled one belongs.
ResultLine_PrintsExpected(error, expected, error_message, shown) ==
  IF error = expected
  THEN IF error_message # NULL
       THEN Line("completed as expected", FALSE, <<>>, "-")
       ELSE Line("completed as expected, error", FALSE, <<error>>, shown)
  ELSE Line("completed with error", TRUE, <<expected>>, shown)

\* Lines 89-103 taking a settled future that carries a message for a failed
\* one, whatever its code.
ResultLine_MessageMeansError(error, expected, error_message, shown) ==
  IF error = expected /\ error_message = NULL
  THEN Line("completed as expected, error", FALSE, <<error>>, shown)
  ELSE Line("completed with error", TRUE, <<error>>, shown)

\* Lines 89-103: the line logged for a settled error `error` with message
\* `error_message`, printed with `shown` for the message.
ResultLine(error, expected, error_message, shown) ==
  IF error = expected
  THEN IF error_message # NULL
       THEN Line("completed as expected", FALSE, <<>>, "-")
       ELSE Line("completed as expected, error", FALSE, <<error>>, shown)
  ELSE Line("completed with error", TRUE, <<error>>, shown)

\* Lines 88-104 returning true (abort) when the result is not the expected
\* one.
LogResult_MismatchAborts ==
  /\ pc = "log"
  /\ IF log_error
     THEN \E shown \in Render(future.error_message) :
            reports' = Append(reports,
                              ResultLine(future.error, expected_error,
                                         future.error_message, shown))
     ELSE UNCHANGED reports
  /\ ret' = Str(future.error # expected_error)
  /\ returns' = returns + 1
  /\ pc' = "done"
  /\ UNCHANGED <<future, expected_error, log_error, pumpCalls, lastPump,
                 pendingObs, entryStatus, observedStatus>>
  /\ UNCHANGED counterVars
  /\ UNCHANGED extVars

\* Lines 88-104 with the return inside the `if (log_error)` block: a quiet
\* call falls off the end and the caller sees true.
LogResult_QuietReturnsTrue ==
  /\ pc = "log"
  /\ IF log_error
     THEN \E shown \in Render(future.error_message) :
            reports' = Append(reports,
                              ResultLine(future.error, expected_error,
                                         future.error_message, shown))
     ELSE UNCHANGED reports
  /\ ret' = Str(~log_error)
  /\ returns' = returns + 1
  /\ pc' = "done"
  /\ UNCHANGED <<future, expected_error, log_error, pumpCalls, lastPump,
                 pendingObs, entryStatus, observedStatus>>
  /\ UNCHANGED counterVars
  /\ UNCHANGED extVars

\* Lines 88-104 releasing the future once its result is logged.
LogResult_ReleasesFuture ==
  /\ pc = "log"
  /\ IF log_error
     THEN \E shown \in Render(future.error_message) :
            reports' = Append(reports,
                              ResultLine(future.error, expected_error,
                                         future.error_message, shown))
     ELSE UNCHANGED reports
  /\ future' = NoFuture
  /\ ret' = "false"
  /\ returns' = returns + 1
  /\ pc' = "done"
  /\ UNCHANGED <<expected_error, log_error, pumpCalls, lastPump,
                 pendingObs, entryStatus, observedStatus>>
  /\ UNCHANGED counterVars
  /\ UNCHANGED extVars

\* Lines 88-104: log the result, return false.
LogResult ==
  /\ pc = "log"
  /\ IF log_error
     THEN \E shown \in Render(future.error_message) :
            reports' = Append(reports,
                              ResultLine(future.error, expected_error,
                                         future.error_message, shown))
     ELSE UNCHANGED reports
  /\ ret' = "false"
  /\ returns' = returns + 1
  /\ pc' = "done"
  /\ UNCHANGED <<future, expected_error, log_error, pumpCalls, lastPump,
                 pendingObs, entryStatus, observedStatus>>
  /\ UNCHANGED counterVars
  /\ UNCHANGED extVars

\* The caller resumes with the returned value; the call's frame is gone.
Return ==
  /\ pc = "done"
  /\ future' = NoFuture
  /\ expected_error' = kAuthErrorNone
  /\ log_error' = TRUE
  /\ pc' = "idle"
  /\ ret' = "none"
  /\ reports' = <<>>
  /\ pumpCalls' = 0
  /\ lastPump' = "none"
  /\ pendingObs' = 0
  /\ entryStatus' = "none"
  /\ observedStatus' = "none"
  /\ returns' = 0
  /\ UNCHANGED counterVars
  /\ UNCHANGED extVars

\* The external subsystem settles the pending operation.
FutureCompletes(err, msg) ==
  /\ pc \in {"entry", "loop", "pump"}
  /\ future.status = "Pending"
  /\ future' = [status |-> "Complete", error |-> err, error_message |-> msg]
  /\ UNCHANGED <<expected_error, log_error, pc, ret, reports, pumpCalls,
                 lastPump, pendingObs, entryStatus, observedStatus, returns>>
  /\ UNCHANGED counterVars
  /\ UNCHANGED extVars

\* ------------------------------------------------------------------ counters
\* Arguments drawn for CompleteTest: every count a counter can hold, one
\* below (negative) and one above; min > max is drawn as well.
TestArgs == (0 - 1)..(MaxNotify + 1)

\* One LogMessage line of a counter class: the listener it names, whether it
\* starts with "ERROR: ", the count printed by %d and whether "times" (rather
\* than "time") is printed.
CounterLine(text, err, count, plural) ==
  [text |-> text, ERROR |-> err, count |-> count, plural |-> plural]

\* Lines 174-178. `n` is this->num_state_changes_ on entry; the result is
\* the field on exit and the line logged.
OnAuthStateChanged(n) ==
  [num_state_changes_ |-> n + 1,
   log |-> CounterLine("OnAuthStateChanged", FALSE, n + 1, FALSE)]

\* Lines 184-192 with a strict upper bound.
AuthStateChangeCounter_CompleteTest_StrictMax(n, min_state_changes, max_state_changes) ==
  LET success == min_state_changes <= n /\ n < max_state_changes
  IN [num_state_changes_ |-> 0,
      log |-> CounterLine("AuthStateListener called", ~success, n, n # 1)]

\* Lines 184-192.
AuthStateChangeCounter_CompleteTest(n, min_state_changes, max_state_changes) ==
  LET success == min_state_changes <= n /\ n <= max_state_changes
  IN [num_state_changes_ |-> 0,
      log |-> CounterLine("AuthStateListener called", ~success, n, n # 1)]

\* Lines 180-182 passing 0 as the lower bound.
AuthStateChangeCounter_CompleteTest2_FromZero(n, expected_state_changes) ==
  AuthStateChangeCounter_CompleteTest(n, 0, expected_state_changes)

\* Lines 180-182.
AuthStateChangeCounter_CompleteTest2(n, expected_state_changes) ==
  AuthStateChangeCounter_CompleteTest(n, expected_state_changes,
                                      expected_state_changes)

\* Lines 202-206.
OnIdTokenChanged(n) ==
  [num_token_changes_ |-> n + 1,
   log |-> CounterLine("OnIdTokenChanged", FALSE, n + 1, FALSE)]

\* Lines 212-220 resetting the count only when the test passed.
IdTokenChangeCounter_CompleteTest_KeepOnFail(n, min_token_changes, max_token_changes) ==
  LET success == min_token_changes <= n /\ n <= max_token_changes
  IN [num_token_changes_ |-> IF success THEN 0 ELSE n,
      log |-> CounterLine("IdTokenListener called", ~success, n, n # 1)]

\* Lines 212-220 without the upper bound.
IdTokenChangeCounter_CompleteTest_MinOnly(n, min_token_changes, max_token_changes) ==
  LET success == min_token_changes <= n
  IN [num_token_changes_ |-> 0,
      log |-> CounterLine("IdTokenListener called", ~success, n, n # 1)]

\* Lines 212-220.
IdTokenChangeCounter_CompleteTest(n, min_token_changes, max_token_changes) ==
  LET success == min_token_changes <= n /\ n <= max_token_changes
  IN [num_token_changes_ |-> 0,
      log |-> CounterLine("IdTokenListener called", ~success, n, n # 1)]

\* Lines 208-210.
IdTokenChangeCounter_CompleteTest2(n, token_changes) ==
  IdTokenChangeCounter_CompleteTest(n, token_changes, token_changes)

\* A counter operation as the orchestrator or the subsystem issued it: its
\* arguments, the counter's field on entry and the number of notifications
\* delivered to that counter since its previous reset.
CallRecord(op, counter, min, max, arity, before) ==
  [op |-> op, counter |-> counter, min |-> min, max |-> max,
   arity |-> arity, before |-> before, notified |-> window[counter]]

\* The subsystem notifies the attached AuthStateListener.  It does so at any
\* point of a wait or between two calls of the orchestrator.
NotifyAuthState ==
  /\ num_state_changes_ < MaxNotify
  /\ LET r == OnAuthStateChanged(num_state_changes_)
     IN /\ num_state_changes_' = r.num_state_changes_
        /\ counter_log' = r.log
  /\ window' = [window EXCEPT !["auth"] = @ + 1]
  /\ last_call' = CallRecord("notify", "auth", 0, 0, 0, num_state_changes_)
  /\ UNCHANGED num_token_changes_
  /\ UNCHANGED waitVars
  /\ UNCHANGED extVars

\* The subsystem notifies the attached IdTokenListener.
NotifyIdToken ==
  /\ num_token_changes_ < MaxNotify
  /\ LET r == OnIdTokenChanged(num_token_changes_)
     IN /\ num_token_changes_' = r.num_token_changes_
        /\ counter_log' = r.log
  /\ window' = [window EXCEPT !["token"] = @ + 1]
  /\ last_call' = CallRecord("notify", "token", 0, 0, 0, num_token_changes_)
  /\ UNCHANGED num_state_changes_
  /\ UNCHANGED waitVars
  /\ UNCHANGED extVars

\* The orchestrator, between two waits, calls counter.CompleteTest(name, min,
\* max) (as at line 464).
StateCounterTest(min, max) ==
  /\ pc = "idle"
  /\ LET r == AuthStateChangeCounter_CompleteTest(num_state_changes_, min, max)
     IN /\ num_state_changes_' = r.num_state_changes_
        /\ counter_log' = r.log
  /\ window' = [window EXCEPT !["auth"] = 0]
  /\ last_call' = CallRecord("test", "auth", min, max, 3, num_state_changes_)
  /\ UNCHANGED num_token_changes_
  /\ UNCHANGED waitVars
  /\ UNCHANGED extVars

\* counter.CompleteTest(name, exact) (as at line 450).
StateCounterTestExact(exact) ==
  /\ pc = "idle"
  /\ LET r == AuthStateChangeCounter_CompleteTest2(num_state_changes_, exact)
     IN /\ num_state_changes_' = r.num_state_changes_
        /\ counter_log' = r.log
  /\ window' = [window EXCEPT !["auth"] = 0]
  /\ last_call' = CallRecord("test", "auth", exact, exact, 2,
                             num_state_changes_)
  /\ UNCHANGED num_token_changes_
  /\ UNCHANGED waitVars
  /\ UNCHANGED extVars

\* token_counter.CompleteTest(name, min, max) (as at line 465).
TokenCounterTest(min, max) ==
  /\ pc = "idle"
  /\ LET r == IdTokenChangeCounter_CompleteTest(num_token_changes_, min, max)
     IN /\ num_token_changes_' = r.num_token_changes_
        /\ counter_log' = r.log
  /\ window' = [window EXCEPT !["token"] = 0]
  /\ last_call' = CallRecord("test", "token", min, max, 3, num_token_changes_)
  /\ UNCHANGED num_state_changes_
  /\ UNCHANGED waitVars
  /\ UNCHANGED extVars

\* token_counter.CompleteTest(name, exact) (as at line 451).
TokenCounterTestExact(exact) ==
  /\ pc = "idle"
  /\ LET r == IdTokenChangeCounter_CompleteTest2(num_token_changes_, exact)
     IN /\ num_token_changes_' = r.num_token_changes_
        /\ counter_log' = r.log
  /\ window' = [window EXCEPT !["token"] = 0]
  /\ last_call' = CallRecord("test", "token", exact, exact, 2,
                             num_token_changes_)
  /\ UNCHANGED num_state_changes_
  /\ UNCHANGED waitVars
  /\ UNCHANGED extVars

\* ------------------------------------------------------ WaitForSignInFuture
\* The User objects the SDK hands out; a User* is one of them or NULL.
Users == {"u1", "u2"}
UserPtrs == Users \cup {NULL}
\* What Future<User*>::result() returns: nullptr (<<>>) or a pointer to the
\* User* the operation produced (<<u>>).
Results == {<<>>} \cup {<<u>> : u \in UserPtrs}

\* Everything outside WaitForSignInFuture and the WaitForFuture call it makes.
nonSignInVars == <<counterVars, signOutVars, threadVars, mainVars,
                   laterVars>>

\* The orchestrator calls WaitForSignInFuture(sign_in_future, fn,
\* expected_error, auth), which at line 109 calls WaitForFuture with the
\* default log_error.  Only a Complete future has a result.
SignInCall(st, err, msg, res, exp) ==
  /\ pc = "idle"
  /\ si_pc = "idle"
  /\ future' = IF st = "Complete"
               THEN [status |-> st, error |-> err, error_message |-> msg]
               ELSE [status |-> st, error |-> 0, error_message |-> NULL]
  /\ sign_in_result' = IF st = "Complete" THEN res ELSE <<>>
  /\ expected_error' = exp
  /\ log_error' = TRUE
  /\ pc' = "entry"
  /\ si_pc' = "inner"
  /\ UNCHANGED <<ret, reports, pumpCalls, lastPump, pendingObs, entryStatus,
                 observedStatus, returns>>
  /\ UNCHANGED <<current_user, sign_in_user, auth_user, si_ret, si_reports>>
  /\ UNCHANGED nonSignInVars

\* The external subsystem settles the pending sign-in operation.
SignInFutureCompletes(err, msg, res) ==
  /\ si_pc = "inner"
  /\ pc \in {"entry", "loop", "pump"}
  /\ future.status = "Pending"
  /\ future' = [status |-> "Complete", error |-> err, error_message |-> msg]
  /\ sign_in_result' = res
  /\ UNCHANGED <<expected_error, log_error, pc, ret, reports, pumpCalls,
                 lastPump, pendingObs, entryStatus, observedStatus, returns>>
  /\ UNCHANGED <<current_user, si_pc, sign_in_user, auth_user, si_ret,
                 si_reports>>
  /\ UNCHANGED nonSignInVars

\* The external subsystem changes the current user (sign-in, sign-out).
CurrentUserChanges(u) ==
  /\ u # current_user
  /\ current_user' = u
  /\ UNCHANGED <<sign_in_result, si_pc, sign_in_user, auth_user, si_ret,
                 si_reports>>
  /\ UNCHANGED waitVars
  /\ UNCHANGED nonSignInVars

\* Line 109 without the early return: the result is cross-checked also after
\* a wait that shutdown cut short.
SignInAfterWait_NoEarlyReturn ==
  /\ si_pc = "inner"
  /\ pc = "done"
  /\ si_pc' = "result"
  /\ UNCHANGED <<sign_in_result, current_user, sign_in_user, auth_user,
                 si_ret, si_reports>>
  /\ UNCHANGED waitVars
  /\ UNCHANGED nonSignInVars

\* Line 109: WaitForFuture has returned; return true if it did.
SignInAfterWait ==
  /\ si_pc = "inner"
  /\ pc = "done"
  /\ IF ret = "true"
     THEN /\ si_ret' = "true"
          /\ si_pc' = "done"
     ELSE /\ si_pc' = "result"
          /\ UNCHANGED si_ret
  /\ UNCHANGED <<sign_in_result, current_user, sign_in_user, auth_user,
                 si_reports>>
  /\ UNCHANGED waitVars
  /\ UNCHANGED nonSignInVars

\* Lines 111-113: the future's user, null when the future has no result.
SignInReadResult ==
  /\ si_pc = "result"
  /\ sign_in_user' = IF sign_in_result = <<>> THEN NULL ELSE sign_in_result[1]
  /\ si_pc' = "user"
  /\ UNCHANGED <<sign_in_result, current_user, auth_user, si_ret, si_reports>>
  /\ UNCHANGED waitVars
  /\ UNCHANGED nonSignInVars

\* Line 114.
SignInReadUser ==
  /\ si_pc = "user"
  /\ auth_user' = current_user
  /\ si_pc' = "compare"
  /\ UNCHANGED <<sign_in_result, current_user, sign_in_user, si_ret,
                 si_reports>>
  /\ UNCHANGED waitVars
  /\ UNCHANGED nonSignInVars

\* The ERROR line of lines 117-119, with the two pointers it prints.
UserMismatchLine(fu, au) ==
  [text |-> "future's user and current_user don't match", ERROR |-> TRUE,
   users |-> <<fu, au>>]

\* Lines 116-122 treating a user mismatch as fatal: it returns true.
SignInCompare_MismatchAborts ==
  /\ si_pc = "compare"
  /\ IF sign_in_user # auth_user
     THEN /\ si_reports' = Append(si_reports,
                                  UserMismatchLine(sign_in_user, auth_user))
          /\ si_ret' = "true"
     ELSE /\ UNCHANGED si_reports
          /\ si_ret' = "false"
  /\ si_pc' = "done"
  /\ UNCHANGED <<sign_in_result, current_user, sign_in_user, auth_user>>
  /\ UNCHANGED waitVars
  /\ UNCHANGED nonSignInVars

\* Lines 116-122: report a mismatch, return false.
SignInCompare ==
  /\ si_pc = "compare"
  /\ IF sign_in_user # auth_user
     THEN si_reports' = Append(si_reports,
                               UserMismatchLine(sign_in_user, auth_user))
     ELSE UNCHANGED si_reports
  /\ si_ret' = "false"
  /\ si_pc' = "done"
  /\ UNCHANGED <<sign_in_result, current_user, sign_in_user, auth_user>>
  /\ UNCHANGED waitVars
  /\ UNCHANGED nonSignInVars

\* The caller resumes; both frames are gone.
SignInReturn ==
  /\ si_pc = "done"
  /\ future' = NoFuture
  /\ expected_error' = kAuthErrorNone
  /\ log_error' = TRUE
  /\ pc' = "idle"
  /\ ret' = "none"
  /\ reports' = <<>>
  /\ pumpCalls' = 0
  /\ lastPump' = "none"
  /\ pendingObs' = 0
  /\ entryStatus' = "none"
  /\ observedStatus' = "none"
  /\ returns' = 0
  /\ sign_in_result' = <<>>
  /\ si_pc' = "idle"
  /\ sign_in_user' = "unread"
  /\ auth_user' = "unread"
  /\ si_ret' = "none"
  /\ si_reports' = <<>>
  /\ UNCHANGED current_user
  /\ UNCHANGED nonSignInVars

NextSignIn ==
  \/ \E st \in FutureStatus, err \in ErrorCodes, msg \in Messages,
        res \in Results, exp \in ErrorCodes :
       SignInCall(st, err, msg, res, exp)
  \/ Entry
  \/ LoopCheck
  \/ \E shutdown \in BOOLEAN : Pump(shutdown)
  \/ LogResult
  \/ \E err \in ErrorCodes, msg \in Messages, res \in Results :
       SignInFutureCompletes(err, msg, res)
  \/ \E u \in UserPtrs : CurrentUserChanges(u)
  \/ SignInAfterWait
  \/ SignInReadResult
  \/ SignInReadUser
  \/ SignInCompare
  \/ SignInReturn

\* WaitForSignInFuture called on any future, with any current user.
SpecSignIn == Init /\ [][NextSignIn]_vars

\* ----------------------------------------------------------- WaitForSignOut
\* Everything WaitForSignOut neither reads nor writes.
nonSignOutVars == <<waitVars, counterVars, sign_in_result, si_pc,
                    sign_in_user, auth_user, si_ret, si_reports, threadVars,
                    mainVars, laterVars>>

\* The orchestrator calls WaitForSignOut(auth) (line 479).
SignOutCall ==
  /\ so_pc = "idle"
  /\ so_pc' = "check"
  /\ UNCHANGED <<so_ret, so_ticks100, so_ticks1000, so_last100, so_last1000,
                 so_userObs, so_sawNull>>
  /\ UNCHANGED current_user
  /\ UNCHANGED nonSignOutVars

\* Line 128: the loop condition.
SignOutCheck ==
  /\ so_pc = "check"
  /\ IF current_user # NULL
     THEN /\ so_pc' = "pump"
          /\ so_userObs' = Sat(so_userObs)
          /\ UNCHANGED so_sawNull
     ELSE /\ so_pc' = "final"
          /\ so_sawNull' = TRUE
          /\ UNCHANGED so_userObs
  /\ UNCHANGED <<so_ret, so_ticks100, so_ticks1000, so_last100, so_last1000>>
  /\ UNCHANGED current_user
  /\ UNCHANGED nonSignOutVars

\* Line 129: one ProcessEvents(100) call returning `shutdown`.
SignOutPump(shutdown) ==
  /\ so_pc = "pump"
  /\ so_ticks100' = Sat(so_ticks100)
  /\ so_last100' = Str(shutdown)
  /\ IF shutdown
     THEN /\ so_ret' = "true"
          /\ so_pc' = "done"
     ELSE /\ so_pc' = "check"
          /\ UNCHANGED so_ret
  /\ UNCHANGED <<so_ticks1000, so_last1000, so_userObs, so_sawNull>>
  /\ UNCHANGED current_user
  /\ UNCHANGED nonSignOutVars

\* Lines 132-133 written like the loop body: shutdown reported by the final
\* tick is returned.
SignOutFinalTick_HonoursShutdown(shutdown) ==
  /\ so_pc = "final"
  /\ so_ticks1000' = Sat(so_ticks1000)
  /\ so_last1000' = Str(shutdown)
  /\ so_ret' = Str(shutdown)
  /\ so_pc' = "done"
  /\ UNCHANGED <<so_ticks100, so_last100, so_userObs, so_sawNull>>
  /\ UNCHANGED current_user
  /\ UNCHANGED nonSignOutVars

\* Lines 131-133: one ProcessEvents(1000) call, its result dropped, then
\* return false.
SignOutFinalTick(shutdown) ==
  /\ so_pc = "final"
  /\ so_ticks1000' = Sat(so_ticks1000)
  /\ so_last1000' = Str(shutdown)
  /\ so_ret' = "false"
  /\ so_pc' = "done"
  /\ UNCHANGED <<so_ticks100, so_last100, so_userObs, so_sawNull>>
  /\ UNCHANGED current_user
  /\ UNCHANGED nonSignOutVars

\* The caller resumes; the frame is gone.
SignOutReturn ==
  /\ so_pc = "done"
  /\ so_pc' = "idle"
  /\ so_ret' = "none"
  /\ so_ticks100' = 0
  /\ so_ticks1000' = 0
  /\ so_last100' = "none"
  /\ so_last1000' = "none"
  /\ so_userObs' = 0
  /\ so_sawNull' = FALSE
  /\ UNCHANGED current_user
  /\ UNCHANGED nonSignOutVars

NextSignOut ==
  \/ SignOutCall
  \/ SignOutCheck
  \/ \E shutdown \in BOOLEAN : SignOutPump(shutdown)
  \/ \E shutdown \in BOOLEAN : SignOutFinalTick(shutdown)
  \/ SignOutReturn
  \/ \E u \in UserPtrs : CurrentUserChanges(u)
  \/ NotifyAuthState
  \/ NotifyIdToken

\* WaitForSignOut called with any current user, which the subsystem may
\* change (sign out, or sign in again) at any point, signalling the attached
\* listeners as it does.
SpecSignOut == Init /\ [][NextSignOut]_vars

\* ------------------------------------------------- the counters side by side
\* Both counters driven by one sequence of operations: every operation is
\* applied to `counter` and then, with the same arguments, to
\* `token_counter` (as lines 450-451, 464-465 apply them in turn).
AuthLeads == last_call.counter # "auth"
TokenFollows == last_call.counter = "auth"

NextPair ==
  \/ AuthLeads /\ NotifyAuthState
  \/ AuthLeads /\ \E min \in TestArgs, max \in TestArgs :
                    StateCounterTest(min, max)
  \/ AuthLeads /\ \E exact \in TestArgs : StateCounterTestExact(exact)
  \/ TokenFollows /\ last_call.op = "notify" /\ NotifyIdToken
  \/ TokenFollows /\ last_call.op = "test" /\ last_call.arity = 3
       /\ TokenCounterTest(last_call.min, last_call.max)
  \/ TokenFollows /\ last_call.op = "test" /\ last_call.arity = 2
       /\ TokenCounterTestExact(last_call.min)

SpecPair == Init /\ [][NextPair]_vars

\* ------------------------------------- a counter notified from another thread
\* AuthStateChangeCounter with OnAuthStateChanged running on a thread of the
\* SDK while the orchestrator's thread runs CompleteTest.  num_state_changes_
\* is a plain int: each method is a sequence of loads and stores of it, and
\* since the accesses race a later read in the same call yields either the
\* value now in memory or a value the call loaded before (a build may keep it
\* in a register).
nonThreadVars == <<waitVars, signInVars, signOutVars, num_token_changes_,
                   window, last_call, mainVars, laterVars>>

\* The values a read of num_state_changes_ by CompleteTest can yield.
ReadValues == {num_state_changes_} \cup {ct_reads[i] : i \in DOMAIN ct_reads}

\* counter.CompleteTest(name, min, max) is entered.
ThreadedTestCall(min, max) ==
  /\ ct_pc = "idle"
  /\ ct_pc' = "min"
  /\ ct_args' = <<min, max>>
  /\ ct_reads' = <<>>
  /\ ct_success' = "none"
  /\ UNCHANGED <<nt_pc, nt_tmp, delivered, accounted>>
  /\ UNCHANGED <<num_state_changes_, counter_log>>
  /\ UNCHANGED nonThreadVars

\* Line 186: min_state_changes <= num_state_changes_ (a false result decides
\* `success` without the second comparison).
ThreadedTestMin ==
  /\ ct_pc = "min"
  /\ ct_reads' = Append(ct_reads, num_state_changes_)
  /\ IF ct_args[1] <= num_state_changes_
     THEN /\ ct_pc' = "max"
          /\ UNCHANGED ct_success
     ELSE /\ ct_pc' = "report"
          /\ ct_success' = "false"
  /\ UNCHANGED <<ct_args, nt_pc, nt_tmp, delivered, accounted>>
  /\ UNCHANGED <<num_state_changes_, counter_log>>
  /\ UNCHANGED nonThreadVars

\* Line 187: num_state_changes_ <= max_state_changes.
ThreadedTestMax ==
  /\ ct_pc = "max"
  /\ \E n \in ReadValues :
       /\ ct_reads' = Append(ct_reads, n)
       /\ ct_success' = Str(n <= ct_args[2])
  /\ ct_pc' = "report"
  /\ UNCHANGED <<ct_args, nt_pc, nt_tmp, delivered, accounted>>
  /\ UNCHANGED <<num_state_changes_, counter_log>>
  /\ UNCHANGED nonThreadVars

\* Lines 188-190: the line logged, with the count read for %d and the count
\* read for the plural.
ThreadedTestReport ==
  /\ ct_pc = "report"
  /\ \E n \in ReadValues, p \in ReadValues :
       /\ ct_reads' = Append(ct_reads, n)
       /\ counter_log' = CounterLine("AuthStateListener called",
                                     ct_success = "false", n, p # 1)
  /\ ct_pc' = "reset"
  /\ UNCHANGED <<ct_args, ct_success, nt_pc, nt_tmp, delivered, accounted>>
  /\ UNCHANGED num_state_changes_
  /\ UNCHANGED nonThreadVars

\* Line 191: num_state_changes_ = 0.  The count the verdict was given on is
\* the one line 186 read.
ThreadedTestReset ==
  /\ ct_pc = "reset"
  /\ num_state_changes_' = 0
  /\ accounted' = accounted + ct_reads[1]
  /\ ct_pc' = "idle"
  /\ UNCHANGED <<ct_args, ct_reads, ct_success, nt_pc, nt_tmp, delivered>>
  /\ UNCHANGED counter_log
  /\ UNCHANGED nonThreadVars

\* Line 175, first half: the SDK thread enters OnAuthStateChanged and loads
\* num_state_changes_.
ThreadedNotifyLoad ==
  /\ nt_pc = "idle"
  /\ delivered < MaxNotify
  /\ nt_tmp' = num_state_changes_
  /\ delivered' = delivered + 1
  /\ nt_pc' = "store"
  /\ UNCHANGED <<ct_pc, ct_args, ct_reads, ct_success, accounted>>
  /\ UNCHANGED <<num_state_changes_, counter_log>>
  /\ UNCHANGED nonThreadVars

\* Line 175, second half: it stores the incremented value.
ThreadedNotifyStore ==
  /\ nt_pc = "store"
  /\ num_state_changes_' = nt_tmp + 1
  /\ nt_pc' = "log"
  /\ UNCHANGED <<ct_pc, ct_args, ct_reads, ct_success, nt_tmp, delivered,
                 accounted>>
  /\ UNCHANGED counter_log
  /\ UNCHANGED nonThreadVars

\* Lines 176-177: it logs the count, read again or kept from the increment.
ThreadedNotifyLog ==
  /\ nt_pc = "log"
  /\ \E n \in {num_state_changes_, nt_tmp + 1} :
       counter_log' = CounterLine("OnAuthStateChanged", FALSE, n, FALSE)
  /\ nt_pc' = "idle"
  /\ UNCHANGED <<ct_pc, ct_args, ct_reads, ct_success, nt_tmp, delivered,
                 accounted>>
  /\ UNCHANGED num_state_changes_
  /\ UNCHANGED nonThreadVars

NextThreaded ==
  \/ \E min \in TestArgs, max \in TestArgs : ThreadedTestCall(min, max)
  \/ ThreadedTestMin
  \/ ThreadedTestMax
  \/ ThreadedTestReport
  \/ ThreadedTestReset
  \/ ThreadedNotifyLoad
  \/ ThreadedNotifyStore
  \/ ThreadedNotifyLog

SpecThreaded == Init /\ [][NextThreaded]_vars

\* ------------------------------------------------ a wait with listeners attached
\* WaitForSignInFuture on a future of any status while both listeners are
\* attached: as long as WaitForFuture runs, the subsystem may settle the
\* future and notify the listeners between any two of its statements.
InWaitForFuture == pc \in {"entry", "loop", "pump", "log"}

NextListening ==
  \/ \E st \in FutureStatus, err \in ErrorCodes, msg \in Messages,
        res \in Results, exp \in ErrorCodes :
       SignInCall(st, err, msg, res, exp)
  \/ Entry
  \/ LoopCheck
  \/ \E shutdown \in BOOLEAN : Pump(shutdown)
  \/ LogResult
  \/ \E err \in ErrorCodes, msg \in Messages, res \in Results :
       SignInFutureCompletes(err, msg, res)
  \/ InWaitForFuture /\ NotifyAuthState
  \/ InWaitForFuture /\ NotifyIdToken
  \/ SignInAfterWait
  \/ SignInReadResult
  \/ SignInReadUser
  \/ SignInCompare
  \/ SignInReturn

SpecListening == Init /\ [][NextListening]_vars

\* ------------------------------------------------------------ the test run
\* common_main as it sequences operations, waits and counter tests: the
\* StateChange tests from their sign-in on (lines 458-481), then the start of
\* the Auth tests (lines 546-551).  mpc names the statement common_main
\* executes next; during a wait it names the wait's call site.  Every wait is
\* called as a statement: its bool result is dropped (lines 460, 470, 479,
\* 251).
nonMainVars == <<counterVars, signOutVars, threadVars, laterVars>>

\* The call sites of the fragment, by source line: an SDK operation followed
\* by the wait on it.
SignInSite == <<459, 460>>
GetTokenSite == <<469, 470>>
SignOutSite == <<477, 479>>
RegisterSite == <<250, 251>>

\* WaitForFuture is entered on a future in status `st`.
StartWait(st, err, msg) ==
  /\ future' = IF st = "Complete"
               THEN [status |-> st, error |-> err, error_message |-> msg]
               ELSE [status |-> st, error |-> 0, error_message |-> NULL]
  /\ expected_error' = kAuthErrorNone
  /\ log_error' = TRUE
  /\ pc' = "entry"
  /\ UNCHANGED <<ret, reports, pumpCalls, lastPump, pendingObs, entryStatus,
                 observedStatus, returns>>

\* The frames of WaitForFuture and WaitForSignInFuture are gone.
EndWait ==
  /\ future' = NoFuture
  /\ expected_error' = kAuthErrorNone
  /\ log_error' = TRUE
  /\ pc' = "idle"
  /\ ret' = "none"
  /\ reports' = <<>>
  /\ pumpCalls' = 0
  /\ lastPump' = "none"
  /\ pendingObs' = 0
  /\ entryStatus' = "none"
  /\ observedStatus' = "none"
  /\ returns' = 0
  /\ sign_in_result' = <<>>
  /\ si_pc' = "idle"
  /\ sign_in_user' = "unread"
  /\ auth_user' = "unread"
  /\ si_ret' = "none"
  /\ si_reports' = <<>>

\* The wait that just ended logged an ERROR line (an Invalid future, an
\* error-code mismatch or a user mismatch).
WaitFailed ==
  \/ \E i \in DOMAIN reports : reports[i].ERROR
  \/ si_reports # <<>>

\* common_main resumes after a wait that returned `r`: it never looks at `r`.
Resume(r) ==
  /\ exit_seen' = (exit_seen \/ r = "true")
  /\ failed' = (failed \/ WaitFailed)

\* counter.CompleteTest(name, a[1], a[2]) and then
\* token_counter.CompleteTest(name, t[1], t[2]), as at lines 464-465.
CompleteTests(a, t) ==
  LET r == AuthStateChangeCounter_CompleteTest(num_state_changes_, a[1], a[2])
      s == IdTokenChangeCounter_CompleteTest(num_token_changes_, t[1], t[2])
  IN /\ num_state_changes_' = r.num_state_changes_
     /\ num_token_changes_' = s.num_token_changes_
     /\ counter_log' = s.log
     /\ window' = [c \in Counters |-> 0]
     /\ last_call' = CallRecord("test", "token", t[1], t[2], 3,
                                num_token_changes_)

\* Lines 459-461: auth->SignInAnonymously(), then WaitForSignInFuture on the
\* future it returned.
MainSignIn(st, err, msg, res) ==
  /\ mpc = "L459"
  /\ pc = "idle" /\ si_pc = "idle"
  /\ StartWait(st, err, msg)
  /\ sign_in_result' = IF st = "Complete" THEN res ELSE <<>>
  /\ si_pc' = "inner"
  /\ issued' = issued \o SignInSite
  /\ mpc' = "L460"
  /\ UNCHANGED <<current_user, sign_in_user, auth_user, si_ret, si_reports>>
  /\ UNCHANGED <<user_, exit_seen, failed, had_user, main_reports>>
  /\ UNCHANGED nonMainVars

\* Line 461: the wait has returned; its result is dropped.
MainAfterSignIn ==
  /\ mpc = "L460"
  /\ si_pc = "done"
  /\ Resume(si_ret)
  /\ EndWait
  /\ mpc' = "L464"
  /\ UNCHANGED <<current_user, user_, issued, had_user, main_reports>>
  /\ UNCHANGED nonMainVars

\* Lines 464-465.
MainTests464 ==
  /\ mpc = "L464"
  /\ CompleteTests(<<2, 4>>, <<2, 5>>)
  /\ mpc' = "L468"
  /\ UNCHANGED <<user_, issued, exit_seen, failed, had_user, main_reports>>
  /\ UNCHANGED waitVars
  /\ UNCHANGED <<signInVars, signOutVars, threadVars, laterVars>>

\* Lines 468-470: with a current user, GetToken(true) and WaitForFuture on
\* its future; without one the whole GetToken test is left out.
MainGetToken(st, err, msg) ==
  /\ mpc = "L468"
  /\ pc = "idle"
  /\ had_user' = Str(current_user # NULL)
  /\ IF current_user # NULL
     THEN /\ StartWait(st, err, msg)
          /\ issued' = issued \o GetTokenSite
          /\ mpc' = "L470"
     ELSE /\ mpc' = "L477"
          /\ UNCHANGED issued
          /\ UNCHANGED waitVars
  /\ UNCHANGED <<user_, exit_seen, failed, main_reports>>
  /\ UNCHANGED counterVars
  /\ UNCHANGED <<signInVars, signOutVars, threadVars, laterVars>>

\* Line 470 has returned; its result is dropped.
MainAfterGetToken ==
  /\ mpc = "L470"
  /\ pc = "done"
  /\ Resume(ret)
  /\ EndWait
  /\ mpc' = "L471"
  /\ UNCHANGED <<current_user, user_, issued, had_user, main_reports>>
  /\ UNCHANGED nonMainVars

\* Lines 471-472: CompleteTest(name, 0) and CompleteTest(name, 1).
MainTests471 ==
  /\ mpc = "L471"
  /\ CompleteTests(<<0, 0>>, <<1, 1>>)
  /\ mpc' = "L477"
  /\ UNCHANGED <<user_, issued, exit_seen, failed, had_user, main_reports>>
  /\ UNCHANGED waitVars
  /\ UNCHANGED <<signInVars, signOutVars, threadVars, laterVars>>

\* Lines 477-479: auth->SignOut(), then WaitForSignOut(auth).
MainSignOut ==
  /\ mpc = "L477"
  /\ so_pc = "idle"
  /\ so_pc' = "check"
  /\ issued' = issued \o SignOutSite
  /\ mpc' = "L479"
  /\ UNCHANGED <<so_ret, so_ticks100, so_ticks1000, so_last100, so_last1000,
                 so_userObs, so_sawNull>>
  /\ UNCHANGED <<user_, exit_seen, failed, had_user, main_reports>>
  /\ UNCHANGED <<waitVars, counterVars, signInVars, threadVars, laterVars>>

\* Line 479 has returned; its result is dropped.
MainAfterSignOut ==
  /\ mpc = "L479"
  /\ so_pc = "done"
  /\ exit_seen' = (exit_seen \/ so_ret = "true")
  /\ so_pc' = "idle"
  /\ so_ret' = "none"
  /\ so_ticks100' = 0
  /\ so_ticks1000' = 0
  /\ so_last100' = "none"
  /\ so_last1000' = "none"
  /\ so_userObs' = 0
  /\ so_sawNull' = FALSE
  /\ mpc' = "L480"
  /\ UNCHANGED <<user_, issued, failed, had_user, main_reports>>
  /\ UNCHANGED <<waitVars, counterVars, signInVars, threadVars, laterVars>>

\* Lines 480-481: CompleteTest(name, 1) on both counters.  The run then
\* reaches the Auth tests.
MainTests480 ==
  /\ mpc = "L480"
  /\ CompleteTests(<<1, 1>>, <<1, 1>>)
  /\ mpc' = "L548"
  /\ UNCHANGED <<user_, issued, exit_seen, failed, had_user, main_reports>>
  /\ UNCHANGED waitVars
  /\ UNCHANGED <<signInVars, signOutVars, threadVars, laterVars>>

\* Lines 547-548 and 249-253: UserLogin::Register() issues
\* CreateUserWithEmailAndPassword and waits on its future.
MainRegister(st, err, msg, res) ==
  /\ mpc = "L548"
  /\ pc = "idle" /\ si_pc = "idle"
  /\ StartWait(st, err, msg)
  /\ sign_in_result' = IF st = "Complete" THEN res ELSE <<>>
  /\ si_pc' = "inner"
  /\ issued' = issued \o RegisterSite
  /\ mpc' = "L251"
  /\ UNCHANGED <<current_user, sign_in_user, auth_user, si_ret, si_reports>>
  /\ UNCHANGED <<user_, exit_seen, failed, had_user, main_reports>>
  /\ UNCHANGED nonMainVars

\* Lines 251-255: the wait has returned, its result is dropped; user_ is the
\* future's user, nullptr without a result.
MainAfterRegister ==
  /\ mpc = "L251"
  /\ si_pc = "done"
  /\ user_' = IF sign_in_result = <<>> THEN NULL ELSE sign_in_result[1]
  /\ Resume(si_ret)
  /\ EndWait
  /\ mpc' = "L549"
  /\ UNCHANGED <<current_user, issued, had_user, main_reports>>
  /\ UNCHANGED nonMainVars

\* Lines 549-551 leaving the Auth tests out also when a wait has failed.
MainCheckUser_StopsOnFailure ==
  /\ mpc = "L549"
  /\ IF user_ = NULL \/ failed
     THEN /\ main_reports' = Append(main_reports,
                                    "ERROR: Could not register new user.")
          /\ mpc' = "L751"
     ELSE /\ mpc' = "L554"
          /\ UNCHANGED main_reports
  /\ UNCHANGED <<user_, issued, exit_seen, failed, had_user>>
  /\ UNCHANGED waitVars
  /\ UNCHANGED counterVars
  /\ UNCHANGED <<signInVars, signOutVars, threadVars, laterVars>>

\* Lines 549-551: without a registered user an ERROR line is logged and the
\* Auth tests (lines 552-750) are left out; with one they begin at line 554.
\* The model follows the run no further.
MainCheckUser ==
  /\ mpc = "L549"
  /\ IF user_ = NULL
     THEN /\ main_reports' = Append(main_reports,
                                    "ERROR: Could not register new user.")
          /\ mpc' = "L751"
     ELSE /\ mpc' = "L554"
          /\ UNCHANGED main_reports
  /\ UNCHANGED <<user_, issued, exit_seen, failed, had_user>>
  /\ UNCHANGED waitVars
  /\ UNCHANGED counterVars
  /\ UNCHANGED <<signInVars, signOutVars, threadVars, laterVars>>

\* common_main is about to read the counters.  No statement of a wait reads
\* a counter and no notification reads a wait, so a notification delivered
\* during a wait is one delivered once the wait has returned: the run meets
\* it in the CompleteTest calls that follow.
AtCompleteTest == mpc \in {"L464", "L471", "L480"}

\* Where the model leaves the run: the Auth tests begin, or were left out.
MainEnds == {"L554", "L751"}

NextMain ==
  \/ \E st \in FutureStatus, err \in ErrorCodes, msg \in Messages,
        res \in Results : MainSignIn(st, err, msg, res)
  \/ MainAfterSignIn
  \/ MainTests464
  \/ \E st \in FutureStatus, err \in ErrorCodes, msg \in Messages :
       MainGetToken(st, err, msg)
  \/ MainAfterGetToken
  \/ MainTests471
  \/ MainSignOut
  \/ MainAfterSignOut
  \/ MainTests480
  \/ \E st \in FutureStatus, err \in ErrorCodes, msg \in Messages,
        res \in Results : MainRegister(st, err, msg, res)
  \/ MainAfterRegister
  \/ MainCheckUser
  \/ Entry
  \/ LoopCheck
  \/ \E shutdown \in BOOLEAN : Pump(shutdown)
  \/ LogResult
  \/ SignInAfterWait
  \/ SignInReadResult
  \/ SignInReadUser
  \/ SignInCompare
  \/ SignOutCheck
  \/ \E shutdown \in BOOLEAN : SignOutPump(shutdown)
  \/ \E shutdown \in BOOLEAN : SignOutFinalTick(shutdown)
  \/ si_pc = "idle" /\ \E err \in ErrorCodes, msg \in Messages :
                         FutureCompletes(err, msg)
  \/ \E err \in ErrorCodes, msg \in Messages, res \in Results :
       SignInFutureCompletes(err, msg, res)
  \/ mpc \notin MainEnds /\ \E u \in UserPtrs : CurrentUserChanges(u)
  \/ AtCompleteTest /\ NotifyAuthState
  \/ AtCompleteTest /\ NotifyIdToken

\* The run of common_main over the fragment, with futures in any state, any
\* pump results, any current user and any notifications.
SpecMain == Init /\ [][NextMain]_vars

\* -------------------------------------------------- phone verification flow
\* common_main lines 496-541 with the PhoneListener of lines 295-353.  The
\* SDK calls the listener at any time once VerifyPhoneNumber was called; the
\* two wait loops read its counters in their conditions.  One step of a loop
\* is one evaluation of its condition and, when it holds, its body.
nonPhoneVars == <<waitVars, counterVars, signInVars, signOutVars, threadVars,
                  mainVars, runVars, loginVars>>

VerificationIds == {"vid"}

\* The listener has been called with one of the callbacks the code-send wait
\* looks for.
CodeSendCallback ==
  \/ num_calls_on_verification_complete_ # 0
  \/ num_calls_on_verification_failed_ # 0
  \/ num_calls_on_code_sent_ # 0

\* The listener has been called with one of the callbacks the completion
\* wait looks for.
CompletionCallback ==
  \/ num_calls_on_verification_complete_ # 0
  \/ num_calls_on_verification_failed_ # 0
  \/ num_calls_on_code_auto_retrieval_time_out_ # 0

\* A line logged by the flow or its listener.
PhoneLine(text, err) == [text |-> text, ERROR |-> err]

\* Lines 496-502: the listener is constructed, VerifyPhoneNumber is called,
\* wait_ms starts at 0.
PhoneVerify ==
  /\ ph_pc = "idle"
  /\ ph_pc' = "send"
  /\ wait_ms' = 0
  /\ UNCHANGED <<num_calls_on_verification_complete_,
                 num_calls_on_verification_failed_, num_calls_on_code_sent_,
                 num_calls_on_code_auto_retrieval_time_out_,
                 verification_id_, listener_lines, ph_reports, send_pumps,
                 completion_pumps, ph_last_pump, send_exit_received>>
  /\ UNCHANGED nonPhoneVars

\* The listener is attached to a verification in progress.
Listening ==
  ph_pc \in {"send", "report", "completion", "after"}

\* Lines 303-306.
OnVerificationCompleted ==
  /\ Listening
  /\ num_calls_on_verification_complete_ < MaxCallbacks
  /\ listener_lines' = listener_lines \cup
       {PhoneLine("PhoneListener: successful automatic verification.", FALSE)}
  /\ num_calls_on_verification_complete_' =
       num_calls_on_verification_complete_ + 1
  /\ UNCHANGED <<ph_pc, wait_ms, num_calls_on_verification_failed_,
                 num_calls_on_code_sent_,
                 num_calls_on_code_auto_retrieval_time_out_,
                 verification_id_, ph_reports, send_pumps, completion_pumps,
                 ph_last_pump, send_exit_received>>
  /\ UNCHANGED nonPhoneVars

\* Lines 308-312.
OnVerificationFailed ==
  /\ Listening
  /\ num_calls_on_verification_failed_ < MaxCallbacks
  /\ listener_lines' = listener_lines \cup
       {PhoneLine("PhoneListener verification failed with error", TRUE)}
  /\ num_calls_on_verification_failed_' =
       num_calls_on_verification_failed_ + 1
  /\ UNCHANGED <<ph_pc, wait_ms, num_calls_on_verification_complete_,
                 num_calls_on_code_sent_,
                 num_calls_on_code_auto_retrieval_time_out_,
                 verification_id_, ph_reports, send_pumps, completion_pumps,
                 ph_last_pump, send_exit_received>>
  /\ UNCHANGED nonPhoneVars

\* Lines 314-322.
OnCodeSent(verification_id) ==
  /\ Listening
  /\ num_calls_on_code_sent_ < MaxCallbacks
  /\ listener_lines' = listener_lines \cup
       {PhoneLine("PhoneListener: code sent.", FALSE)}
  /\ verification_id_' = verification_id
  /\ num_calls_on_code_sent_' = num_calls_on_code_sent_ + 1
  /\ UNCHANGED <<ph_pc, wait_ms, num_calls_on_verification_complete_,
                 num_calls_on_verification_failed_,
                 num_calls_on_code_auto_retrieval_time_out_, ph_reports,
                 send_pumps, completion_pumps, ph_last_pump,
                 send_exit_received>>
  /\ UNCHANGED nonPhoneVars

\* Lines 324-329.
OnCodeAutoRetrievalTimeOut(verification_id) ==
  /\ Listening
  /\ num_calls_on_code_auto_retrieval_time_out_ < MaxCallbacks
  /\ listener_lines' = listener_lines \cup
       {PhoneLine("PhoneListener: auto retrieval timeout.", FALSE)}
  /\ verification_id_' = verification_id
  /\ num_calls_on_code_auto_retrieval_time_out_' =
       num_calls_on_code_auto_retrieval_time_out_ + 1
  /\ UNCHANGED <<ph_pc, wait_ms, num_calls_on_verification_complete_,
                 num_calls_on_verification_failed_, num_calls_on_code_sent_,
                 ph_reports, send_pumps, completion_pumps, ph_last_pump,
                 send_exit_received>>
  /\ UNCHANGED nonPhoneVars

\* Lines 503-510 leaving the loop when ProcessEvents reports shutdown.
PhoneSendStep_HonoursShutdown(shutdown) ==
  /\ ph_pc = "send"
  /\ IF ~CodeSendCallback /\ wait_ms <= kPhoneAuthCodeSendWaitMs
     THEN /\ send_pumps' = send_pumps + 1
          /\ ph_last_pump' = Str(shutdown)
          /\ wait_ms' = wait_ms + kWaitIntervalMs
          /\ ph_pc' = IF shutdown THEN "report" ELSE ph_pc
          /\ send_exit_received' = IF shutdown THEN "false"
                                               ELSE send_exit_received
     ELSE /\ ph_pc' = "report"
          /\ send_exit_received' = Str(CodeSendCallback)
          /\ UNCHANGED <<send_pumps, ph_last_pump, wait_ms>>
  /\ UNCHANGED <<num_calls_on_verification_complete_,
                 num_calls_on_verification_failed_, num_calls_on_code_sent_,
                 num_calls_on_code_auto_retrieval_time_out_,
                 verification_id_, listener_lines, ph_reports,
                 completion_pumps>>
  /\ UNCHANGED nonPhoneVars

\* Lines 503-510: one pass of the code-send wait.  While none of the three
\* callbacks has been counted and the budget is not used up, it calls
\* ProcessEvents(kWaitIntervalMs), whose result it drops, and adds the
\* interval to wait_ms; otherwise the loop is left.
PhoneSendStep(shutdown) ==
  /\ ph_pc = "send"
  /\ IF ~CodeSendCallback /\ wait_ms <= kPhoneAuthCodeSendWaitMs
     THEN /\ send_pumps' = send_pumps + 1
          /\ ph_last_pump' = Str(shutdown)
          /\ wait_ms' = wait_ms + kWaitIntervalMs
          /\ UNCHANGED <<ph_pc, send_exit_received>>
     ELSE /\ ph_pc' = "report"
          /\ send_exit_received' = Str(CodeSendCallback)
          /\ UNCHANGED <<send_pumps, ph_last_pump, wait_ms>>
  /\ UNCHANGED <<num_calls_on_verification_complete_,
                 num_calls_on_verification_failed_, num_calls_on_code_sent_,
                 num_calls_on_code_auto_retrieval_time_out_,
                 verification_id_, listener_lines, ph_reports,
                 completion_pumps>>
  /\ UNCHANGED nonPhoneVars

\* Lines 512-519 starting the completion wait with a fresh wait_ms.
PhoneReport_ResetsWait ==
  /\ ph_pc = "report"
  /\ IF wait_ms > kPhoneAuthCodeSendWaitMs
     THEN /\ ph_reports' = Append(ph_reports,
               PhoneLine("SMS with verification code not sent.", TRUE))
          /\ ph_pc' = "done"
          /\ UNCHANGED wait_ms
     ELSE /\ ph_reports' = Append(ph_reports,
               PhoneLine("SMS verification code sent.", FALSE))
          /\ ph_pc' = "completion"
          /\ wait_ms' = 0
  /\ UNCHANGED <<num_calls_on_verification_complete_,
                 num_calls_on_verification_failed_, num_calls_on_code_sent_,
                 num_calls_on_code_auto_retrieval_time_out_,
                 verification_id_, listener_lines, send_pumps,
                 completion_pumps, ph_last_pump, send_exit_received>>
  /\ UNCHANGED nonPhoneVars

\* Lines 512-519: the outcome of the code-send wait is read off wait_ms.
PhoneReport ==
  /\ ph_pc = "report"
  /\ IF wait_ms > kPhoneAuthCodeSendWaitMs
     THEN /\ ph_reports' = Append(ph_reports,
               PhoneLine("SMS with verification code not sent.", TRUE))
          /\ ph_pc' = "done"
     ELSE /\ ph_reports' = Append(ph_reports,
               PhoneLine("SMS verification code sent.", FALSE))
          /\ ph_pc' = "completion"
  /\ UNCHANGED <<wait_ms, num_calls_on_verification_complete_,
                 num_calls_on_verification_failed_, num_calls_on_code_sent_,
                 num_calls_on_code_auto_retrieval_time_out_,
                 verification_id_, listener_lines, send_pumps,
                 completion_pumps, ph_last_pump, send_exit_received>>
  /\ UNCHANGED nonPhoneVars

\* Lines 521-528: one pass of the completion wait, on the same wait_ms.
PhoneCompletionStep(shutdown) ==
  /\ ph_pc = "completion"
  /\ IF ~CompletionCallback /\ wait_ms <= kPhoneAuthCompletionWaitMs
     THEN /\ completion_pumps' = completion_pumps + 1
          /\ ph_last_pump' = Str(shutdown)
          /\ wait_ms' = wait_ms + kWaitIntervalMs
          /\ UNCHANGED ph_pc
     ELSE /\ ph_pc' = "after"
          /\ UNCHANGED <<completion_pumps, ph_last_pump, wait_ms>>
  /\ UNCHANGED <<num_calls_on_verification_complete_,
                 num_calls_on_verification_failed_, num_calls_on_code_sent_,
                 num_calls_on_code_auto_retrieval_time_out_,
                 verification_id_, listener_lines, ph_reports, send_pumps,
                 send_exit_received>>
  /\ UNCHANGED nonPhoneVars

\* Lines 529-540: after an auto-retrieval timeout the flow signs in with the
\* phone credential, otherwise it logs an ERROR line.  The model follows the
\* flow no further.
PhoneAfter ==
  /\ ph_pc = "after"
  /\ IF num_calls_on_code_auto_retrieval_time_out_ > 0
     THEN /\ ph_pc' = "signin"
          /\ UNCHANGED ph_reports
     ELSE /\ ph_reports' = Append(ph_reports,
               PhoneLine("SMS auto-detect time out did not occur.", TRUE))
          /\ ph_pc' = "done"
  /\ UNCHANGED <<wait_ms, num_calls_on_verification_complete_,
                 num_calls_on_verification_failed_, num_calls_on_code_sent_,
                 num_calls_on_code_auto_retrieval_time_out_,
                 verification_id_, listener_lines, send_pumps,
                 completion_pumps, ph_last_pump, send_exit_received>>
  /\ UNCHANGED nonPhoneVars

NextPhone ==
  \/ PhoneVerify
  \/ OnVerificationCompleted
  \/ OnVerificationFailed
  \/ \E verification_id \in VerificationIds : OnCodeSent(verification_id)
  \/ \E verification_id \in VerificationIds :
       OnCodeAutoRetrievalTimeOut(verification_id)
  \/ \E shutdown \in BOOLEAN : PhoneSendStep(shutdown)
  \/ PhoneReport
  \/ \E shutdown \in BOOLEAN : PhoneCompletionStep(shutdown)
  \/ PhoneAfter

\* The phone verification flow with callbacks arriving at any time, or never.
SpecPhone == Init /\ [][NextPhone]_vars

\* ------------------------------------------- start and end of common_main
\* common_main lines 357-386 (the App and Auth are created and initialized)
\* and lines 991-999 (the final loop and the return).  The tests in between
\* (lines 388-989) are one step here: the other specifications follow them.
nonRunVars == <<waitVars, counterVars, signInVars, signOutVars, threadVars,
                mainVars, phoneVars, loginVars>>

\* Lines 370-375: initializer.Initialize() starts the initialization; the
\* future InitializeLastResult() returns is pending or already complete.
RunStart(st, err, msg) ==
  /\ run_pc = "start"
  /\ st \in {"Pending", "Complete"}
  /\ init_future' = IF st = "Complete"
                    THEN [status |-> st, error |-> err, error_message |-> msg]
                    ELSE [status |-> st, error |-> 0, error_message |-> NULL]
  /\ run_pc' = "init"
  /\ UNCHANGED <<run_ret, tests_run, init_pumps, final_pumps, run_last_pump,
                 run_reports>>
  /\ UNCHANGED nonRunVars

\* The initialization completes.
InitCompletes(err, msg) ==
  /\ run_pc = "init"
  /\ init_future.status = "Pending"
  /\ init_future' = [status |-> "Complete", error |-> err,
                     error_message |-> msg]
  /\ UNCHANGED <<run_pc, run_ret, tests_run, init_pumps, final_pumps,
                 run_last_pump, run_reports>>
  /\ UNCHANGED nonRunVars

\* Lines 376-379: one pass of the initialization wait.
RunInitStep(shutdown) ==
  /\ run_pc = "init"
  /\ IF init_future.status # "Complete"
     THEN /\ init_pumps' = Sat(init_pumps)
          /\ run_last_pump' = [tick |-> 100, result |-> Str(shutdown)]
          /\ IF shutdown
             THEN /\ run_ret' = 1
                  /\ run_pc' = "exit"
             ELSE UNCHANGED <<run_ret, run_pc>>
     ELSE /\ run_pc' = "check"
          /\ UNCHANGED <<init_pumps, run_last_pump, run_ret>>
  /\ UNCHANGED <<init_future, tests_run, final_pumps, run_reports>>
  /\ UNCHANGED nonRunVars

\* Lines 381-386 going on to the tests whatever the error.
RunInitCheck_IgnoresError(shutdown) ==
  /\ run_pc = "check"
  /\ run_pc' = "tests"
  /\ UNCHANGED <<run_reports, run_last_pump, run_ret>>
  /\ UNCHANGED <<init_future, tests_run, init_pumps, final_pumps>>
  /\ UNCHANGED nonRunVars

\* Lines 381-386: a failed initialization is logged, ProcessEvents(2000) is
\* called with its result dropped, and common_main returns 1.
RunInitCheck(shutdown) ==
  /\ run_pc = "check"
  /\ IF init_future.error # 0
     THEN /\ \E shown \in Render(init_future.error_message) :
               run_reports' = Append(run_reports,
                                     [text |-> "Failed to initialize Auth",
                                      msg |-> shown])
          /\ run_last_pump' = [tick |-> 2000, result |-> Str(shutdown)]
          /\ run_ret' = 1
          /\ run_pc' = "exit"
     ELSE /\ run_pc' = "tests"
          /\ UNCHANGED <<run_reports, run_last_pump, run_ret>>
  /\ UNCHANGED <<init_future, tests_run, init_pumps, final_pumps>>
  /\ UNCHANGED nonRunVars

\* Lines 388-991: the test sequence, then "Completed Auth tests.".
RunTests ==
  /\ run_pc = "tests"
  /\ tests_run' = TRUE
  /\ run_reports' = Append(run_reports,
                           [text |-> "Completed Auth tests.", msg |-> "-"])
  /\ run_pc' = "final"
  /\ UNCHANGED <<init_future, run_ret, init_pumps, final_pumps,
                 run_last_pump>>
  /\ UNCHANGED nonRunVars

\* Lines 993-999: one ProcessEvents(1000) call of the final loop; when it
\* reports shutdown, auth and app are deleted and common_main returns 0.
RunFinalStep(shutdown) ==
  /\ run_pc = "final"
  /\ final_pumps' = Sat(final_pumps)
  /\ run_last_pump' = [tick |-> 1000, result |-> Str(shutdown)]
  /\ IF shutdown
     THEN /\ run_ret' = 0
          /\ run_pc' = "exit"
     ELSE UNCHANGED <<run_ret, run_pc>>
  /\ UNCHANGED <<init_future, tests_run, init_pumps, run_reports>>
  /\ UNCHANGED nonRunVars

NextRun ==
  \/ \E st \in FutureStatus, err \in ErrorCodes, msg \in Messages :
       RunStart(st, err, msg)
  \/ \E err \in ErrorCodes, msg \in Messages : InitCompletes(err, msg)
  \/ \E shutdown \in BOOLEAN : RunInitStep(shutdown)
  \/ \E shutdown \in BOOLEAN : RunInitCheck(shutdown)
  \/ RunTests
  \/ \E shutdown \in BOOLEAN : RunFinalStep(shutdown)

\* One run of common_main with any initialization result and any pump
\* results.
SpecRun == Init /\ [][NextRun]_vars

\* ----------------------------------------------------------------- UserLogin
\* One UserLogin object (lines 227-293) from its construction to its
\* destruction.  common_main builds it with the one-argument constructor and
\* calls Register() at once (lines 490-491, 547-548, 836-837); Delete() is
\* public and may be called any number of times before the destructor runs.
\* del_held, delete_requests, login_calls, first_status and del_from describe
\* the Delete() call, or the destruction, in progress or latest.
nonLoginVars == <<counterVars, signOutVars, threadVars, phoneVars, runVars,
                  mpc, issued, exit_seen, failed, had_user, main_reports>>

\* WaitForFuture(future, fn, kAuthErrorNone, log) is entered.
BeginWait(st, err, msg, log) ==
  /\ future' = IF st = "Complete"
               THEN [status |-> st, error |-> err, error_message |-> msg]
               ELSE [status |-> st, error |-> 0, error_message |-> NULL]
  /\ expected_error' = kAuthErrorNone
  /\ log_error' = log
  /\ pc' = "entry"
  /\ ret' = "none"
  /\ reports' = <<>>
  /\ pumpCalls' = 0
  /\ lastPump' = "none"
  /\ pendingObs' = 0
  /\ entryStatus' = "none"
  /\ observedStatus' = "none"
  /\ returns' = 0

\* WaitForSignInFuture is entered on a future with result `res`.
BeginSignIn(st, res) ==
  /\ sign_in_result' = IF st = "Complete" THEN res ELSE <<>>
  /\ si_pc' = "inner"
  /\ UNCHANGED <<current_user, sign_in_user, auth_user, si_ret, si_reports>>

\* The frame of WaitForSignInFuture is gone.
EndSignIn ==
  /\ sign_in_result' = <<>>
  /\ si_pc' = "idle"
  /\ sign_in_user' = "unread"
  /\ auth_user' = "unread"
  /\ si_ret' = "none"
  /\ si_reports' = <<>>
  /\ UNCHANGED current_user

\* Lines 228-233: the three-argument constructor.
UserLogin3 ==
  /\ ul_pc = "none"
  /\ user_' = NULL
  /\ log_errors_' = "true"
  /\ ul_ctor' = "three"
  /\ ul_pc' = "live"
  /\ UNCHANGED <<delete_requests, login_calls, del_held, del_from,
                 deleted_before, reg_user, first_status>>
  /\ UNCHANGED <<waitVars, signInVars>>
  /\ UNCHANGED nonLoginVars

\* Lines 236-239: the one-argument constructor initializes neither user_ nor
\* log_errors_; they hold whatever `u` and `l` the memory held.  Register()
\* is called next.
UserLogin1(u, l) ==
  /\ ul_pc = "none"
  /\ user_' = u
  /\ log_errors_' = Str(l)
  /\ ul_ctor' = "one"
  /\ ul_pc' = "new"
  /\ UNCHANGED <<delete_requests, login_calls, del_held, del_from,
                 deleted_before, reg_user, first_status>>
  /\ UNCHANGED <<waitVars, signInVars>>
  /\ UNCHANGED nonLoginVars

\* Lines 249-253: Register() issues CreateUserWithEmailAndPassword and waits
\* on its future.
Register(st, err, msg, res) ==
  /\ ul_pc \in {"new", "live"}
  /\ reg_user = "none"
  /\ del_held = "none"
  /\ BeginWait(st, err, msg, TRUE)
  /\ BeginSignIn(st, res)
  /\ ul_pc' = "register"
  /\ UNCHANGED <<user_, log_errors_, ul_ctor, delete_requests, login_calls,
                 del_held, del_from, deleted_before, reg_user, first_status>>
  /\ UNCHANGED nonLoginVars

\* Lines 251-255: the wait has returned; user_ is the user of the future's
\* result, nullptr when the future has no result.
RegisterDone ==
  /\ ul_pc = "register"
  /\ si_pc = "done"
  /\ user_' = IF sign_in_result = <<>> THEN NULL ELSE sign_in_result[1]
  /\ reg_user' = IF sign_in_result = <<>> THEN NULL ELSE sign_in_result[1]
  /\ EndWait
  /\ ul_pc' = "live"
  /\ UNCHANGED <<current_user, log_errors_, ul_ctor, delete_requests,
                 login_calls, del_held, del_from, deleted_before,
                 first_status>>
  /\ UNCHANGED nonLoginVars

\* Lines 267-278 entered by `from` with log_errors_ = `log`.  Without a user
\* it only sets user_ to nullptr.  With one it issues user_->Delete(); when
\* that future (of status `st`) is Invalid it calls Login() (lines 258-265),
\* which waits on a SignInWithCredential future (`st2`, `res`); otherwise it
\* waits on the delete future.
DeleteBody(from, log, st, err, msg, st2, res) ==
  /\ del_from' = from
  /\ del_held' = Str(user_ # NULL)
  /\ log_errors_' = log
  /\ login_calls' = IF user_ # NULL /\ st = "Invalid" THEN 1 ELSE 0
  /\ IF user_ = NULL
     THEN /\ delete_requests' = 0
          /\ first_status' = "none"
          /\ deleted_before' = TRUE
          /\ ul_pc' = IF from = "dtor" THEN "gone" ELSE "live"
          /\ UNCHANGED <<user_, waitVars, signInVars>>
     ELSE /\ delete_requests' = 1
          /\ first_status' = st
          /\ UNCHANGED <<user_, deleted_before>>
          /\ IF st = "Invalid"
             THEN /\ BeginWait(st2, err, msg, TRUE)
                  /\ BeginSignIn(st2, res)
                  /\ ul_pc' = "login"
             ELSE /\ BeginWait(st, err, msg, log = "true")
                  /\ ul_pc' = "delete"
                  /\ UNCHANGED signInVars
  /\ UNCHANGED <<ul_ctor, reg_user>>
  /\ UNCHANGED nonLoginVars

\* Lines 267-278: Delete() called on the object.
Delete(st, err, msg, st2, res) ==
  /\ ul_pc = "live"
  /\ DeleteBody("call", log_errors_, st, err, msg, st2, res)

\* Lines 241-246 leaving log_errors_ as it is.
Destructor_KeepsLogging(st, err, msg, st2, res) ==
  /\ ul_pc = "live"
  /\ IF user_ # NULL
     THEN DeleteBody("dtor", log_errors_, st, err, msg, st2, res)
     ELSE /\ del_from' = "dtor"
          /\ del_held' = "false"
          /\ delete_requests' = 0
          /\ login_calls' = 0
          /\ first_status' = "none"
          /\ ul_pc' = "gone"
          /\ UNCHANGED <<user_, log_errors_, ul_ctor, deleted_before,
                         reg_user>>
          /\ UNCHANGED <<waitVars, signInVars>>
          /\ UNCHANGED nonLoginVars

\* Lines 241-246: the destructor.  With a user held it sets log_errors_ to
\* false and calls Delete(); without one it does nothing.
Destructor(st, err, msg, st2, res) ==
  /\ ul_pc = "live"
  /\ IF user_ # NULL
     THEN DeleteBody("dtor", "false", st, err, msg, st2, res)
     ELSE /\ del_from' = "dtor"
          /\ del_held' = "false"
          /\ delete_requests' = 0
          /\ login_calls' = 0
          /\ first_status' = "none"
          /\ ul_pc' = "gone"
          /\ UNCHANGED <<user_, log_errors_, ul_ctor, deleted_before,
                         reg_user>>
          /\ UNCHANGED <<waitVars, signInVars>>
          /\ UNCHANGED nonLoginVars

\* Lines 264-275: Login() has returned; user_->Delete() is issued a second
\* time and its future (of status `st`) is waited on.
LoginDone(st, err, msg) ==
  /\ ul_pc = "login"
  /\ si_pc = "done"
  /\ delete_requests' = delete_requests + 1
  /\ BeginWait(st, err, msg, log_errors_ = "true")
  /\ EndSignIn
  /\ ul_pc' = "delete"
  /\ UNCHANGED <<user_, log_errors_, ul_ctor, login_calls, del_held, del_from,
                 deleted_before, reg_user, first_status>>
  /\ UNCHANGED nonLoginVars

\* Lines 274-278 clearing user_ only when the delete succeeded.
DeleteDone_KeepsUserOnError ==
  /\ ul_pc = "delete"
  /\ pc = "done"
  /\ user_' = IF future.status = "Complete" /\ future.error = kAuthErrorNone
              THEN NULL ELSE user_
  /\ deleted_before' = TRUE
  /\ EndWait
  /\ ul_pc' = IF del_from = "dtor" THEN "gone" ELSE "live"
  /\ UNCHANGED <<current_user, log_errors_, ul_ctor, delete_requests,
                 login_calls, del_held, del_from, reg_user, first_status>>
  /\ UNCHANGED nonLoginVars

\* Lines 274-278: the wait on the delete future has returned; user_ is set
\* to nullptr whatever the outcome.
DeleteDone ==
  /\ ul_pc = "delete"
  /\ pc = "done"
  /\ user_' = NULL
  /\ deleted_before' = TRUE
  /\ EndWait
  /\ ul_pc' = IF del_from = "dtor" THEN "gone" ELSE "live"
  /\ UNCHANGED <<current_user, log_errors_, ul_ctor, delete_requests,
                 login_calls, del_held, del_from, reg_user, first_status>>
  /\ UNCHANGED nonLoginVars

NextLogin ==
  \/ UserLogin3
  \/ \E u \in UserPtrs, l \in BOOLEAN : UserLogin1(u, l)
  \/ \E st \in FutureStatus, err \in ErrorCodes, msg \in Messages,
        res \in Results : Register(st, err, msg, res)
  \/ RegisterDone
  \/ \E st \in FutureStatus, err \in ErrorCodes, msg \in Messages,
        st2 \in FutureStatus, res \in Results :
       Delete(st, err, msg, st2, res)
  \/ \E st \in FutureStatus, err \in ErrorCodes, msg \in Messages,
        st2 \in FutureStatus, res \in Results :
       Destructor(st, err, msg, st2, res)
  \/ \E st \in FutureStatus, err \in ErrorCodes, msg \in Messages :
       LoginDone(st, err, msg)
  \/ DeleteDone
  \/ Entry
  \/ LoopCheck
  \/ \E shutdown \in BOOLEAN : Pump(shutdown)
  \/ LogResult
  \/ SignInAfterWait
  \/ SignInReadResult
  \/ SignInReadUser
  \/ SignInCompare
  \/ si_pc = "idle" /\ \E err \in ErrorCodes, msg \in Messages :
                         FutureCompletes(err, msg)
  \/ \E err \in ErrorCodes, msg \in Messages, res \in Results :
       SignInFutureCompletes(err, msg, res)
  \/ ul_pc \in {"register", "login"}
       /\ \E u \in UserPtrs : CurrentUserChanges(u)

\* A UserLogin built with either constructor, with futures in any state and
\* any pump results.
SpecLogin == Init /\ [][NextLogin]_vars

Next ==
  \/ \E st \in FutureStatus, err \in ErrorCodes, msg \in Messages,
        exp \in ErrorCodes, log \in BOOLEAN : Call(st, err, msg, exp, log)
  \/ Entry
  \/ LoopCheck
  \/ \E shutdown \in BOOLEAN : Pump(shutdown)
  \/ LogResult
  \/ Return
  \/ \E err \in ErrorCodes, msg \in Messages : FutureCompletes(err, msg)
  \/ NotifyAuthState
  \/ NotifyIdToken
  \/ \E min \in TestArgs, max \in TestArgs : StateCounterTest(min, max)
  \/ \E exact \in TestArgs : StateCounterTestExact(exact)
  \/ \E min \in TestArgs, max \in TestArgs : TokenCounterTest(min, max)
  \/ \E exact \in TestArgs : TokenCounterTestExact(exact)

Spec == Init /\ [][Next]_vars

\* Fairness of the waiting thread: it keeps executing its next statement, and
\* every ProcessEvents call returns.  Nothing is assumed of the subsystem
\* (the operation may never settle) or of the value ProcessEvents returns.
SpecLive ==
  /\ Init
  /\ [][Next]_vars
  /\ WF_vars(Entry)
  /\ WF_vars(LoopCheck)
  /\ WF_vars(\E shutdown \in BOOLEAN : Pump(shutdown))
  /\ WF_vars(LogResult)

\* ------------------------------------------------------------------ claims
WaitPcs == {"entry", "loop", "pump", "log"}
CallingLine == Line("calling", FALSE, <<>>, "-")
InvalidLine == Line("invalid", TRUE, <<>>, "-")

\* The lines of lines 94, 96 and 100: the reports on a settled operation.
IsCompletion(l) ==
  l.text \in {"completed as expected", "completed as expected, error",
              "completed with error"}
IsSuccess(l) ==
  /\ l.text \in {"completed as expected", "completed as expected, error"}
  /\ ~l.ERROR
IsMismatch(l) == l.text = "completed with error" /\ l.ERROR
Shows(l, code) == \E k \in DOMAIN l.codes : l.codes[k] = code
Completions == {i \in DOMAIN reports : IsCompletion(reports[i])}

\* The wait ran to its end on a future its loop condition saw Complete.
SettledWait == pc = "done" /\ observedStatus = "Complete"

\* C1: once a ProcessEvents call of the polling loop has returned true, the
\* wait has returned true: it is at no further statement (so no further
\* ProcessEvents call), it has logged nothing but the "Calling" line, and this
\* whatever the future's status is at that instant.
C1_ShutdownReturnsAtOnce ==
  lastPump = "true" =>
    /\ pc = "done"
    /\ ret = "true"
    /\ returns = 1
    /\ reports = <<CallingLine>>

\* The pump reported shutdown in the very tick in which the future settled.
C1_Witness ==
  /\ lastPump = "true"
  /\ pc = "done"
  /\ future.status = "Complete"
  /\ pumpCalls = 1

\* C2: a call returns exactly once (no return statement before it is done,
\* one when it is), and it returns true if and only if a ProcessEvents call of
\* its loop returned true; it returns false for an invalid future and for a
\* settled future, whether or not the error is the expected one.
C2_ReturnsTrueIffShutdown ==
  /\ returns \in {0, 1}
  /\ (pc = "done") <=> (returns = 1)
  /\ (pc # "done") => (ret = "none")
  /\ (pc = "done") =>
       /\ ret \in {"true", "false"}
       /\ (ret = "true") <=> (lastPump = "true")
       /\ (entryStatus = "Invalid" \/ observedStatus = "Complete") =>
            (ret = "false")

\* A wait that polled, saw an unexpected error and returned false.
C2_Witness ==
  /\ SettledWait
  /\ ret = "false"
  /\ lastPump = "false"
  /\ future.error # expected_error

\* C3: a future that is Invalid at the entry check makes the call return
\* false at once with exactly one line logged, the ERROR line of line 78: no
\* ProcessEvents call and no completion report.
C3_InvalidFuture ==
  entryStatus = "Invalid" =>
    /\ pc = "done"
    /\ ret = "false"
    /\ pumpCalls = 0
    /\ lastPump = "none"
    /\ reports = <<InvalidLine>>
    /\ InvalidLine.ERROR
    /\ Completions = {}

C3_Witness ==
  /\ entryStatus = "Invalid"
  /\ pc = "done"
  /\ Len(reports) = 1
  /\ log_error

\* C4 as stated: a settled future whose error is the expected one always gets
\* a success report, and the call returns false.
C4_Original ==
  SettledWait /\ future.error = expected_error =>
    /\ \E i \in DOMAIN reports : IsSuccess(reports[i])
    /\ ret = "false"

\* C4: a settled future whose error is the expected one makes the call return
\* false; with log_error set it gets exactly one completion report, a success
\* report, and with log_error clear it gets none.
C4_SuccessReport ==
  SettledWait /\ future.error = expected_error =>
    /\ ret = "false"
    /\ log_error =>
         /\ Cardinality(Completions) = 1
         /\ \A i \in Completions : IsSuccess(reports[i])
    /\ ~log_error => Completions = {}

\* An expected failure (a non-zero code that was asked for) reported as a
\* success after polling.
C4_Witness ==
  /\ SettledWait
  /\ log_error
  /\ future.error = expected_error
  /\ future.error # kAuthErrorNone
  /\ pumpCalls >= 1
  /\ \E i \in DOMAIN reports : IsSuccess(reports[i])

C6_PumpOnlyWhilePending ==
  /\ pc = "pump" => pendingObs = Sat(pumpCalls)
  /\ pc \in {"loop", "log", "done"} => pendingObs = pumpCalls
  /\ entryStatus = "Complete" => pumpCalls = 0
  /\ pendingObs = 0 => pumpCalls = 0
  /\ observedStatus # "none" =>
       /\ pc \in {"log", "done"}
       /\ lastPump # "true"
       /\ pumpCalls = pendingObs

\* Scenario 2: two ticks returned false, then the future was seen Complete.
C6_Witness ==
  /\ SettledWait
  /\ entryStatus = "Pending"
  /\ pumpCalls = 2
  /\ pendingObs = 2
  /\ ret = "false"

\* C7: under SpecLive, a call in progress on a future that has settled
\* returns; and a call returns only from a future that is not Pending or
\* from a ProcessEvents call that returned true, so that while the future
\* stays Pending and ProcessEvents returns false no number of ticks ends it.
C7_NoIntrinsicTimeout ==
  /\ (pc \in WaitPcs /\ future.status = "Complete") ~> (pc = "done")
  /\ [][(pc \in WaitPcs /\ pc' = "done") =>
          (future.status # "Pending" \/ lastPump' = "true")]_vars

\* A wait through the largest counted number of ticks that then returned.
C7_Witness ==
  /\ pc = "done"
  /\ pumpCalls = MaxPumps
  /\ entryStatus = "Pending"
  /\ future.status = "Complete"
  /\ ret = "false"

\* The result of the latest CompleteTest, as the counter named holds it.
CounterValue(c) ==
  IF c = "auth" THEN num_state_changes_ ELSE num_token_changes_
TestLineText(c) ==
  IF c = "auth" THEN "AuthStateListener called" ELSE "IdTokenListener called"

\* C8: right after CompleteTest(name, min, max) on either counter, the line
\* it logged is a success line if and only if min <= n <= max, an ERROR line
\* otherwise, and shows n, the number of notifications the counter received
\* since its previous reset.
C8_VerdictIffInRange ==
  last_call.op = "test" =>
    /\ counter_log.text = TestLineText(last_call.counter)
    /\ counter_log.ERROR =
         ~(last_call.min <= last_call.notified
           /\ last_call.notified <= last_call.max)
    /\ counter_log.count = last_call.notified
    /\ counter_log.plural = (last_call.notified # 1)

\* A passing test at the upper end of a proper range.
C8_Witness ==
  /\ last_call.op = "test"
  /\ last_call.arity = 3
  /\ last_call.min < last_call.max
  /\ last_call.notified = last_call.max
  /\ last_call.notified >= 2
  /\ ~counter_log.ERROR

\* C9: each counter holds exactly the number of notifications delivered to
\* it since its latest CompleteTest (since construction if none), never a
\* negative number, and right after a CompleteTest, passed or failed, it
\* holds 0.
C9_CountIsWindow ==
  /\ num_state_changes_ = window["auth"]
  /\ num_token_changes_ = window["token"]
  /\ num_state_changes_ >= 0
  /\ num_token_changes_ >= 0
  /\ last_call.op = "test" => CounterValue(last_call.counter) = 0
  /\ last_call.op = "notify" =>
       CounterValue(last_call.counter) = last_call.before + 1

\* A failed test on a counter that had been notified: the count is 0 again.
C9_Witness ==
  /\ last_call.op = "test"
  /\ counter_log.ERROR
  /\ last_call.notified >= 1
  /\ CounterValue(last_call.counter) = 0

\* C10: right after the two-argument CompleteTest(name, exact), the line
\* logged and the counter are what CompleteTest(name, exact, exact) yields
\* from the same count.
C10_ExactIsRange ==
  last_call.op = "test" /\ last_call.arity = 2 =>
    /\ last_call.counter = "auth" =>
         [num_state_changes_ |-> num_state_changes_, log |-> counter_log] =
           AuthStateChangeCounter_CompleteTest(last_call.before,
                                               last_call.min, last_call.min)
    /\ last_call.counter = "token" =>
         [num_token_changes_ |-> num_token_changes_, log |-> counter_log] =
           IdTokenChangeCounter_CompleteTest(last_call.before,
                                             last_call.min, last_call.min)

\* A two-argument test that failed because the count was below `exact`.
C10_Witness ==
  /\ last_call.op = "test"
  /\ last_call.arity = 2
  /\ last_call.before >= 1
  /\ last_call.before < last_call.min
  /\ counter_log.ERROR

\* The user mismatch lines WaitForSignInFuture has logged.
UserMismatches == {i \in DOMAIN si_reports : si_reports[i].ERROR}

\* C12: WaitForSignInFuture returns true if and only if its WaitForFuture
\* call returned true, and then at once: neither local has been assigned
\* (the result and the current user were not read) and no line of its own
\* has been logged.  It is past line 109 only after a false return.
C12_SignInPropagatesShutdown ==
  /\ si_pc = "done" => ((si_ret = "true") <=> (ret = "true"))
  /\ si_ret = "true" =>
       /\ si_pc = "done"
       /\ sign_in_user = "unread"
       /\ auth_user = "unread"
       /\ si_reports = <<>>
  /\ si_pc \in {"result", "user", "compare"} => ret = "false"
  /\ si_pc # "done" => si_ret = "none"

\* Shutdown in the tick in which a sign-in settled with a user that is not
\* the current one: still no cross-check.
C12_Witness ==
  /\ si_pc = "done"
  /\ si_ret = "true"
  /\ future.status = "Complete"
  /\ sign_in_result # <<>>
  /\ sign_in_result[1] # current_user

\* The future's user as lines 111-113 compute it.
FutureUser == IF sign_in_result = <<>> THEN NULL ELSE sign_in_result[1]

\* C13: after a wait that shutdown did not cut short (future Complete with
\* any error, or Invalid), WaitForSignInFuture has compared the future's user
\* (NULL without a result) with the current user it read at line 114, has
\* logged an ERROR line if and only if the two differ, and has returned
\* false either way.
C13_UserCrossCheck ==
  /\ [](si_pc = "done" /\ ret = "false" =>
          /\ si_ret = "false"
          /\ sign_in_user = FutureUser
          /\ auth_user \in UserPtrs
          /\ (UserMismatches # {}) <=> (sign_in_user # auth_user)
          /\ Len(si_reports) <= 1
          /\ \A i \in DOMAIN si_reports :
               si_reports[i] = UserMismatchLine(sign_in_user, auth_user))
  /\ [][(si_pc = "user" /\ si_pc' = "compare") => auth_user' = current_user]_vars

\* A failed sign-in (unexpected error, no result) while a user is signed in:
\* reported, not fatal.
C13_Witness ==
  /\ si_pc = "done"
  /\ si_ret = "false"
  /\ observedStatus = "Complete"
  /\ future.error # expected_error
  /\ sign_in_result = <<>>
  /\ auth_user \in Users
  /\ UserMismatches # {}

\* C18: with log_error set, the one completion line of a settled wait is a
\* success line exactly when the settled error equals expected_error and an
\* ERROR line exactly when it differs; the message the future carries and the
\* expected code being kAuthErrorNone or not play no part.
C18_ReportGatedOnEquality ==
  SettledWait /\ log_error =>
    /\ Cardinality(Completions) = 1
    /\ \A i \in Completions :
         /\ IsSuccess(reports[i]) <=> (future.error = expected_error)
         /\ reports[i].ERROR <=> (future.error # expected_error)
         /\ IsMismatch(reports[i]) <=> (future.error # expected_error)

\* An expected failure that carries a message is still a success line.
C18_Witness ==
  /\ SettledWait
  /\ log_error
  /\ expected_error # kAuthErrorNone
  /\ future.error = expected_error
  /\ future.error_message = "msg"
  /\ \A i \in Completions : IsSuccess(reports[i])
  /\ Completions # {}

\* C19: a call with log_error clear logs no completion line, whatever the
\* settled error; everything else is what the future and ProcessEvents
\* dictate, with no part for log_error: the "Calling" or the invalid line is
\* logged, ProcessEvents is called once per Pending read of the loop
\* condition, the call returns true exactly when a ProcessEvents call did,
\* and false for an invalid or a settled future.
C19_QuietWait ==
  /\ ~log_error => Completions = {}
  /\ (~log_error /\ pc = "done") =>
       reports = IF entryStatus = "Invalid" THEN <<InvalidLine>>
                                            ELSE <<CallingLine>>
  /\ pc \in {"loop", "log", "done"} => pumpCalls = pendingObs
  /\ pc = "done" => ret = Str(lastPump = "true")
  /\ lastPump = "true" => pc = "done"
  /\ (pc = "done" /\ observedStatus = "none" /\ entryStatus # "Invalid") =>
       lastPump = "true"

\* A quiet wait that polled and then saw an unexpected error.
C19_Witness ==
  /\ SettledWait
  /\ ~log_error
  /\ future.error # expected_error
  /\ pumpCalls >= 1
  /\ ret = "false"
  /\ reports = <<CallingLine>>

\* C20: WaitForSignOut calls ProcessEvents(100) once for every read of the
\* loop condition that saw a current user and never otherwise; a true result
\* of such a call makes it return true at once, without the 1000-unit tick;
\* once the loop condition has seen no current user it makes exactly one
\* ProcessEvents(1000) call, drops its result and returns false.  So it
\* returns only after seeing no current user or after a 100-unit tick that
\* reported shutdown.
C20_WaitForSignOut ==
  /\ so_pc = "pump" => so_userObs = Sat(so_ticks100)
  /\ so_pc \in {"check", "final", "done"} => so_userObs = so_ticks100
  /\ so_last100 = "true" =>
       /\ so_pc = "done"
       /\ so_ret = "true"
       /\ so_ticks1000 = 0
       /\ ~so_sawNull
  /\ so_sawNull => so_pc \in {"final", "done"} /\ so_last100 # "true"
  /\ so_pc = "final" => so_ticks1000 = 0
  /\ so_pc \notin {"final", "done"} => so_ticks1000 = 0
  /\ so_pc = "done" =>
       \/ so_ret = "true" /\ so_last100 = "true"
       \/ /\ so_ret = "false"
          /\ so_sawNull
          /\ so_ticks1000 = 1
          /\ so_last1000 \in {"true", "false"}
  /\ so_pc # "done" => so_ret = "none"

\* Two 100-unit ticks with a user signed in, then none: the final tick
\* reported shutdown and false was returned all the same.
C20_Witness ==
  /\ so_pc = "done"
  /\ so_ret = "false"
  /\ so_ticks100 = 2
  /\ so_ticks1000 = 1
  /\ so_last1000 = "true"

\* What a counter line says apart from the listener's name.
Verdict(l) == <<l.ERROR, l.count, l.plural>>

\* C17: under SpecPair (one sequence of operations applied to both
\* counters), whenever both have received the same operations they hold the
\* same count, and the line the token counter logs for an operation says
\* what the state counter's line said for it (verdict, count shown); an
\* operation on one counter leaves the other counter's field as it was.
C17_CountersAlike ==
  /\ [](AuthLeads => num_state_changes_ = num_token_changes_)
  /\ [][(TokenFollows /\ last_call'.counter = "token") =>
          /\ Verdict(counter_log') = Verdict(counter_log)
          /\ last_call'.before = last_call.before
          /\ num_token_changes_' = num_state_changes_
          /\ num_state_changes_' = num_state_changes_]_vars
  /\ [][(AuthLeads /\ last_call'.counter = "auth") =>
          num_token_changes_' = num_token_changes_]_vars

\* Both counters failed the same test of a count above the range.
C17_Witness ==
  /\ last_call.counter = "token"
  /\ last_call.op = "test"
  /\ last_call.arity = 3
  /\ last_call.before > last_call.max
  /\ last_call.min <= last_call.max
  /\ counter_log.ERROR
  /\ num_state_changes_ = 0
  /\ num_token_changes_ = 0

\* C14 (the claim as stated; the code does not meet it): with the callback
\* on another thread, whenever neither method is in progress the counts the
\* CompleteTest calls gave their verdicts on plus the counter's value add up
\* to the notifications delivered, and the count a CompleteTest showed is the
\* count it gave its verdict on.
C14_NoNotificationLost ==
  (ct_pc = "idle" /\ nt_pc = "idle") =>
    /\ accounted + num_state_changes_ = delivered
    /\ \A i \in DOMAIN ct_reads : ct_reads[i] = ct_reads[1]

\* C16: WaitForFuture changes neither the future it waits on (status, error
\* code, error message, result) nor a counter: every statement it executes
\* leaves them as they are, and a counter that changes during the wait does
\* so in a notification delivered by the subsystem.
C16_WaitLeavesFutureAndCounters ==
  /\ [][(pc \in WaitPcs /\ pc' # pc) =>
          /\ future' = future
          /\ sign_in_result' = sign_in_result
          /\ num_state_changes_' = num_state_changes_
          /\ num_token_changes_' = num_token_changes_]_vars
  /\ [][(pc \in WaitPcs /\ <<num_state_changes_, num_token_changes_>>' #
                              <<num_state_changes_, num_token_changes_>>) =>
          (pc' = pc /\ last_call'.op = "notify")]_vars

\* A wait that polled a pending sign-in and logged its result while both
\* listeners were notified.
C16_Witness ==
  /\ pc = "done"
  /\ ret = "false"
  /\ pendingObs > 0
  /\ future.status = "Complete"
  /\ sign_in_result # <<>>
  /\ num_state_changes_ > 0
  /\ num_token_changes_ > 0

\* The operations and waits of the fragment when nothing is left out.
FullSequence == SignInSite \o GetTokenSite \o SignOutSite \o RegisterSite

\* C11: once a wait has returned true (the pump reported shutdown), the run
\* issues no further SDK operation and starts no further wait.
C11_ShutdownEndsRun ==
  exit_seen => (pc = "idle" /\ si_pc = "idle" /\ so_pc = "idle")

SendReported == ph_pc \in {"completion", "after", "signin", "done"}
Reported(text) == \E i \in DOMAIN ph_reports : ph_reports[i].text = text

\* The pump calls the budget of the code-send wait allows.
MaxSendPumps == (kPhoneAuthCodeSendWaitMs \div kWaitIntervalMs) + 1

\* C21: the code-send wait makes at most
\* floor(kPhoneAuthCodeSendWaitMs / kWaitIntervalMs) + 1 pump calls, and is
\* left once they are made even if no callback arrives; a pump call that
\* reports shutdown does not end it.
C21_SendWaitBudget ==
  /\ [](send_pumps <= MaxSendPumps)
  /\ []((ph_pc = "send" /\ send_pumps = MaxSendPumps) =>
          wait_ms > kPhoneAuthCodeSendWaitMs)
  /\ [][(ph_pc = "send" /\ send_pumps' # send_pumps) => ph_pc' = "send"]_vars

\* The whole budget was pumped without a callback, the last call reporting
\* shutdown, and the loop has not been left for it.
C21_Witness ==
  /\ ph_pc = "send"
  /\ send_pumps = MaxSendPumps
  /\ ph_last_pump = "true"
  /\ ~CodeSendCallback

\* C22: wait_ms is not reset between the two waits: it is the time pumped by
\* both, the completion wait pumps only while it is at most
\* kPhoneAuthCompletionWaitMs, and it makes no pump call when the code-send
\* wait already used more than that.
C22_WaitNotReset ==
  /\ [](wait_ms = kWaitIntervalMs * (send_pumps + completion_pumps))
  /\ [][completion_pumps' # completion_pumps =>
          wait_ms <= kPhoneAuthCompletionWaitMs]_vars
  /\ [](kWaitIntervalMs * send_pumps > kPhoneAuthCompletionWaitMs =>
          completion_pumps = 0)

\* A completion wait left without a pump call and without a callback of its
\* own, after a code-send wait longer than kPhoneAuthCompletionWaitMs.
C22_Witness ==
  /\ ph_pc = "after"
  /\ kWaitIntervalMs * send_pumps > kPhoneAuthCompletionWaitMs
  /\ completion_pumps = 0
  /\ ~CompletionCallback

\* C23: "SMS with verification code not sent" is reported exactly when the
\* code-send wait was left with none of its three callbacks received, and
\* "SMS verification code sent" only when one was received.
C23_ReportMatchesCallbacks ==
  SendReported =>
    /\ Reported("SMS with verification code not sent.")
         <=> send_exit_received = "false"
    /\ Reported("SMS verification code sent.")
         => send_exit_received = "true"

DeleteEntered == del_held # "none"

\* C25: Delete() issues a delete request only when a user is held; it calls
\* Login() and issues the request a second time exactly when the first
\* delete future is Invalid, and never a third time; it leaves through the
\* wait on the delete future and always with user_ null, so that a Delete()
\* call or a destruction after a Delete() call finds no user and issues no
\* request.
C25_DeleteOnce ==
  /\ [](del_held = "false" => (delete_requests = 0 /\ login_calls = 0))
  /\ [](del_held = "true" =>
          /\ login_calls = (IF first_status = "Invalid" THEN 1 ELSE 0)
          /\ delete_requests =
               (IF ul_pc = "login" THEN 1 ELSE 1 + login_calls))
  /\ []((DeleteEntered /\ ul_pc \in {"live", "gone"}) => user_ = NULL)
  /\ [][(deleted_before /\ ul_pc = "live" /\ ul_pc' # "live") =>
          (del_held' = "false" /\ delete_requests' = 0 /\ user_' = NULL)]_vars
  /\ [][(ul_pc = "delete" /\ ul_pc' # "delete") =>
          (pc = "done" /\ user_' = NULL)]_vars

\* A second Delete() call on an object that held a registered user, whose
\* first call retried the delete after a Login(): it found no user and
\* issued nothing.
C25_Witness ==
  /\ ul_pc = "live"
  /\ reg_user \in Users
  /\ deleted_before
  /\ del_from = "call"
  /\ del_held = "false"
  /\ delete_requests = 0

\* C26: with either constructor, Register() leaves a user held exactly when
\* the registration future has a result and that result is a non-null user
\* (user_ is null otherwise: without a result, with a result that is a null
\* user, and when shutdown cut the wait short before completion); the
\* destructor issues a delete request exactly when a user is held, and then
\* with log_errors_ false; after a registration that left no user it issues
\* none.
C26_RegisterAndDestroy ==
  /\ [][(ul_pc = "register" /\ ul_pc' = "live") =>
          /\ user_' # NULL <=> (sign_in_result # <<>> /\ sign_in_result[1] # NULL)
          /\ user_' \in UserPtrs
          /\ (sign_in_result # <<>> => user_' = sign_in_result[1])]_vars
  /\ [][(ul_pc = "live" /\ del_from' = "dtor") =>
          /\ delete_requests' >= 1 <=> user_ # NULL
          /\ user_ # NULL => (log_errors_' = "false" /\ ul_pc' # "gone")]_vars
  /\ []((del_from = "dtor" /\ ul_pc = "delete") => ~log_error)
  /\ []((ul_pc = "gone" /\ reg_user = NULL /\ ~deleted_before) =>
          delete_requests = 0)
  /\ []((ul_pc = "gone" /\ ul_ctor = "three" /\ reg_user = "none") =>
          delete_requests = 0)

\* An object built with the one-argument constructor, whose registration
\* gave a user while shutdown was reported, destroyed with that user held:
\* the destructor waits on its delete request with logging off.
C26_Witness ==
  /\ ul_ctor = "one"
  /\ reg_user \in Users
  /\ del_from = "dtor"
  /\ ul_pc = "delete"
  /\ delete_requests = 1
  /\ log_errors_ = "false"
  /\ ~log_error

\* C26 as stated: Register() leaves a user held exactly when the
\* registration future has a result, whatever that result is; the destructor
\* issues a delete request, with log_errors_ false, exactly when a user is
\* held.
C26_Original ==
  /\ [][(ul_pc = "register" /\ ul_pc' = "live") =>
          (user_' # NULL <=> sign_in_result # <<>>)]_vars
  /\ [][(ul_pc = "live" /\ del_from' = "dtor") =>
          /\ delete_requests' >= 1 <=> user_ # NULL
          /\ user_ # NULL => log_errors_' = "false"]_vars

====
